---------------------------- MODULE Spec2Model ----------------------------
(***************************************************************************)
(* A model of prismapilot: the pagination calculator, the search and       *)
(* filter builders and the query orchestrators that hand the assembled     *)
(* argument object to a data-access model (findMany / count / aggregate).  *)
(*                                                                         *)
(* JavaScript values are tagged records, so that undefined, null, "",      *)
(* numbers, booleans, arrays, plain objects and Dates stay distinct.       *)
(* Strings are TLA+ strings; property names (object keys) are bare TLA+    *)
(* strings and an object is a function from its keys to values.            *)
(***************************************************************************)
EXTENDS Integers, Sequences, FiniteSets, TLC

VARIABLES
    op,             \* the exported function the caller invoked last ("none" at start)
    args,           \* the arguments of that call
    ret,            \* what a synchronous function returned / an orchestrator resolved with
    pc,             \* "idle" | "awaiting" | "returned" | "thrown": the orchestrator's position
    err,            \* the error an orchestrator rejected with
    findManyCalls,  \* argument objects passed to model.findMany, in call order
    countCalls,     \* argument objects passed to model.count, in call order
    aggregateCalls, \* argument objects passed to model.aggregate, in call order
    promises,       \* the promise each data-access call returned
    settled,        \* names of the data-access promises in the order they settled
    cache,          \* the cache store: key -> {value, expiry}
    now,            \* the clock the cache store reads
    presets,        \* the preset registry: name -> stored query options
    baseCalls,      \* option objects the add-ons passed to queryBuilder, in call order
    basePromises,   \* the promises of the current add-on call's queryBuilder calls
    callsMade,      \* how many add-on calls the caller has made
    loop            \* a client paging through a data set with cursorQueryBuilder

vars == <<op, args, ret, pc, err, findManyCalls, countCalls, aggregateCalls,
          promises, settled, cache, now, presets, baseCalls, basePromises,
          callsMade, loop>>

\* The process-wide state of the add-ons.
addonVars == <<cache, now, presets, baseCalls, basePromises, callsMade>>

asyncVars == <<pc, err, findManyCalls, countCalls, aggregateCalls, promises, settled>>

(***************************************************************************)
(* Bounds of the model and constants of the program.                       *)
(***************************************************************************)
MaxRows == 3
MaxPage == 3
SmallLimit == 3

DEFAULT_LIMIT == 10
MAX_LIMIT == 100

(***************************************************************************)
(* JavaScript values.                                                      *)
(***************************************************************************)
Undefined == [t |-> "undefined"]
Null == [t |-> "null"]
Str(s) == [t |-> "string", s |-> s]
Num(n) == [t |-> "number", n |-> n]
Bool(b) == [t |-> "boolean", b |-> b]
Arr(a) == [t |-> "array", a |-> a]
Obj(o) == [t |-> "object", o |-> o]
DateV(ms) == [t |-> "date", ms |-> ms]

EmptyObject == <<>>

Max(a, b) == IF a >= b THEN a ELSE b
Min(a, b) == IF a <= b THEN a ELSE b

\* A default parameter value applies exactly when the argument is undefined.
Default(v, d) == IF v = Undefined THEN d ELSE v

\* ToBoolean: undefined, null, "", 0 and false are falsy; everything else is truthy.
IsTruthy(v) ==
    CASE v.t = "undefined" -> FALSE
      [] v.t = "null" -> FALSE
      [] v.t = "string" -> v.s # ""
      [] v.t = "number" -> v.n # 0
      [] v.t = "boolean" -> v.b
      [] OTHER -> TRUE

\* String(value) for the value kinds a cursor field can hold.
JsString(v) ==
    CASE v.t = "string" -> v.s
      [] v.t = "number" -> ToString(v.n)
      [] v.t = "boolean" -> (IF v.b THEN "true" ELSE "false")
      [] v.t = "null" -> "null"
      [] v.t = "undefined" -> "undefined"
      [] OTHER -> "[object Object]"

\* obj[key]: a missing property reads as undefined.
Get(o, key) == IF key \in DOMAIN o THEN o[key] ELSE Undefined

\* Array.prototype.slice(0, end), negative end counted from the back.
SliceTo(a, end) ==
    LET stop == IF end < 0 THEN Max(Len(a) + end, 0) ELSE Min(end, Len(a))
    IN SubSeq(a, 1, stop)

(***************************************************************************)
(* pagination.ts                                                           *)
(***************************************************************************)
\* Mutant: the page floor is forgotten.
getPagination_NoPageFloor(page, limit) ==
    LET p == Default(page, Num(1)).n
        l == Default(limit, Num(DEFAULT_LIMIT)).n
        take == Min(Max(1, l), MAX_LIMIT)
    IN [take |-> take, skip |-> (p - 1) * take]

getPagination(page, limit) ==
    LET p == Default(page, Num(1)).n
        l == Default(limit, Num(DEFAULT_LIMIT)).n
        safePage == Max(1, p)
        take == Min(Max(1, l), MAX_LIMIT)
        skip == (safePage - 1) * take
    IN [take |-> take, skip |-> skip]

\* Mutant: the cursor object is always keyed by "id", whatever cursorField says.
getCursorPagination_IdKey(cursor, cursorField, limit) ==
    LET l == Default(limit, Num(DEFAULT_LIMIT)).n
        take == Min(Max(1, l), MAX_LIMIT)
    IN IF IsTruthy(cursor)
       THEN [take |-> take + 1, skip |-> 1, cursor |-> Obj("id" :> cursor)]
       ELSE [take |-> take + 1]

getCursorPagination(cursor, cursorField, limit) ==
    LET field == Default(cursorField, Str("id")).s
        l == Default(limit, Num(DEFAULT_LIMIT)).n
        take == Min(Max(1, l), MAX_LIMIT)
    IN IF IsTruthy(cursor)
       THEN [take |-> take + 1, skip |-> 1, cursor |-> Obj(field :> cursor)]
       ELSE [take |-> take + 1]

calculateTotalPages(total, limit) ==
    \* Math.ceil(total / limit) for total >= 0 and limit >= 1
    (total + limit - 1) \div limit

\* Mutant: the next cursor is read from the dropped sentinel row, not the last kept one.
processCursorResults_SentinelCursor(results, limit, cursorField) ==
    LET field == Default(cursorField, Str("id")).s
        hasMore == Len(results) > limit
        data == IF hasMore THEN SliceTo(results, limit) ELSE results
        lastItem == results[Len(results)]
        cursorValue == Get(lastItem.o, field)
        nextCursor ==
            IF hasMore /\ Len(data) > 0 /\ IsTruthy(lastItem)
            THEN (IF cursorValue # Undefined THEN Str(JsString(cursorValue)) ELSE Null)
            ELSE Null
    IN [data |-> data, hasMore |-> hasMore, nextCursor |-> nextCursor]

\* Mutant: the guard on empty data is forgotten and the cursor is then read
\* from the last fetched row.
processCursorResults_LastOfResults(results, limit, cursorField) ==
    LET field == Default(cursorField, Str("id")).s
        hasMore == Len(results) > limit
        data == IF hasMore THEN SliceTo(results, limit) ELSE results
        lastItem == IF Len(data) > 0 THEN data[Len(data)] ELSE results[Len(results)]
        cursorValue == Get(lastItem.o, field)
        nextCursor ==
            IF hasMore /\ Len(results) > 0 /\ IsTruthy(lastItem)
            THEN (IF cursorValue # Undefined THEN Str(JsString(cursorValue)) ELSE Null)
            ELSE Null
    IN [data |-> data, hasMore |-> hasMore, nextCursor |-> nextCursor]

processCursorResults(results, limit, cursorField) ==
    LET field == Default(cursorField, Str("id")).s
        hasMore == Len(results) > limit
        data == IF hasMore THEN SliceTo(results, limit) ELSE results
        lastItem == data[Len(data)]
        cursorValue == Get(lastItem.o, field)
        nextCursor ==
            IF hasMore /\ Len(data) > 0 /\ IsTruthy(lastItem)
            THEN (IF cursorValue # Undefined THEN Str(JsString(cursorValue)) ELSE Null)
            ELSE Null
    IN [data |-> data, hasMore |-> hasMore, nextCursor |-> nextCursor]

(***************************************************************************)
(* search.ts                                                               *)
(***************************************************************************)
RECURSIVE TrimStart(_)
TrimStart(s) == IF Len(s) > 0 /\ Head(s) = " " THEN TrimStart(Tail(s)) ELSE s

RECURSIVE TrimEnd(_)
TrimEnd(s) ==
    IF Len(s) > 0 /\ SubSeq(s, Len(s), Len(s)) = " "
    THEN TrimEnd(SubSeq(s, 1, Len(s) - 1))
    ELSE s

\* String.prototype.trim (the model's only whitespace character is the space).
Trim(s) == TrimEnd(TrimStart(s))

\* Mutant: the term is tested trimmed but emitted as typed.
buildSearchQuery_Untrimmed(search, fieldsArg) ==
    LET fields == Default(fieldsArg, Arr(<<>>))
    IN IF \/ ~IsTruthy(search)
          \/ Trim(search.s) = ""
          \/ fields.t # "array"
          \/ Len(fields.a) = 0
       THEN Undefined
       ELSE Obj([OR |-> Arr([i \in 1 .. Len(fields.a) |->
                    Obj(fields.a[i].s :>
                        Obj([contains |-> Str(search.s),
                             mode |-> Str("insensitive")]))])])

buildSearchQuery(search, fieldsArg) ==
    LET fields == Default(fieldsArg, Arr(<<>>))
    IN IF \/ ~IsTruthy(search)
          \/ Trim(search.s) = ""
          \/ fields.t # "array"
          \/ Len(fields.a) = 0
       THEN Undefined
       ELSE Obj([OR |-> Arr([i \in 1 .. Len(fields.a) |->
                    Obj(fields.a[i].s :>
                        Obj([contains |-> Str(Trim(search.s)),
                             mode |-> Str("insensitive")]))])])

(***************************************************************************)
(* filters.ts                                                              *)
(***************************************************************************)
NaN == [t |-> "NaN"]

\* Date.parse for the date strings the model uses, in days since the epoch;
\* any other string is an Invalid Date.
ParseDate(s) ==
    CASE s = "2025-01-01" -> Num(20089)
      [] s = "2025-12-31" -> Num(20453)
      [] OTHER -> NaN

\* new Date(value) for a Date, a string or a number.
NewDate(v) ==
    CASE v.t = "date" -> DateV(v.ms)
      [] v.t = "string" -> DateV(ParseDate(v.s))
      [] v.t = "number" -> DateV(Num(v.n))
      [] OTHER -> DateV(NaN)

buildDateRangeFilter(range) ==
    LET from == Get(range.o, "from")
        to == Get(range.o, "to")
    IN Obj((IF IsTruthy(from) THEN [gte |-> NewDate(from)] ELSE EmptyObject)
           @@ (IF IsTruthy(to) THEN [lte |-> NewDate(to)] ELSE EmptyObject))

\* Mutant: the bounds are tested for truthiness, as the date builder does.
buildNumberRangeFilter_Truthy(range) ==
    LET from == Get(range.o, "from")
        to == Get(range.o, "to")
    IN Obj((IF IsTruthy(from) THEN [gte |-> from] ELSE EmptyObject)
           @@ (IF IsTruthy(to) THEN [lte |-> to] ELSE EmptyObject))

buildNumberRangeFilter(range) ==
    LET from == Get(range.o, "from")
        to == Get(range.o, "to")
    IN Obj((IF from # Undefined THEN [gte |-> from] ELSE EmptyObject)
           @@ (IF to # Undefined THEN [lte |-> to] ELSE EmptyObject))

isDateLike(candidate) == candidate.t = "date" \/ candidate.t = "string"

\* typeof value === "object", not null, not an array, with a from or a to key:
\* of the model's values only plain objects qualify (a Date has neither key).
isDateRangeFilter(value) ==
    IF \/ value.t # "object"
       \/ ("from" \notin DOMAIN value.o /\ "to" \notin DOMAIN value.o)
    THEN FALSE
    ELSE LET from == Get(value.o, "from")
             to == Get(value.o, "to")
         IN \/ (from # Undefined /\ isDateLike(from))
            \/ (to # Undefined /\ isDateLike(to))

isNumberRangeFilter(value) ==
    /\ value.t = "object"
    /\ ("from" \in DOMAIN value.o \/ "to" \in DOMAIN value.o)
    /\ (Get(value.o, "from").t = "number" \/ Get(value.o, "to").t = "number")

\* Mutant: the emptiness test of the array branch is forgotten.
FilterEntry_EmptyIn(value) ==
    IF value = Undefined \/ value = Null \/ value = Str("")
    THEN [set |-> FALSE]
    ELSE IF isNumberRangeFilter(value)
    THEN [set |-> TRUE, value |-> buildNumberRangeFilter(value)]
    ELSE IF isDateRangeFilter(value)
    THEN [set |-> TRUE, value |-> buildDateRangeFilter(value)]
    ELSE IF value.t = "array"
    THEN [set |-> TRUE, value |-> Obj([in |-> value])]
    ELSE [set |-> TRUE, value |-> value]

\* Mutant: the date-range test comes before the number-range test.
FilterEntry_DateFirst(value) ==
    IF value = Undefined \/ value = Null \/ value = Str("")
    THEN [set |-> FALSE]
    ELSE IF isDateRangeFilter(value)
    THEN [set |-> TRUE, value |-> buildDateRangeFilter(value)]
    ELSE IF isNumberRangeFilter(value)
    THEN [set |-> TRUE, value |-> buildNumberRangeFilter(value)]
    ELSE IF value.t = "array"
    THEN (IF Len(value.a) > 0
          THEN [set |-> TRUE, value |-> Obj([in |-> value])]
          ELSE [set |-> FALSE])
    ELSE [set |-> TRUE, value |-> value]

\* Mutant: an object of no recognised shape is skipped instead of kept.
FilterEntry_DropObjects(value) ==
    IF value = Undefined \/ value = Null \/ value = Str("")
    THEN [set |-> FALSE]
    ELSE IF isNumberRangeFilter(value)
    THEN [set |-> TRUE, value |-> buildNumberRangeFilter(value)]
    ELSE IF isDateRangeFilter(value)
    THEN [set |-> TRUE, value |-> buildDateRangeFilter(value)]
    ELSE IF value.t = "array"
    THEN (IF Len(value.a) > 0
          THEN [set |-> TRUE, value |-> Obj([in |-> value])]
          ELSE [set |-> FALSE])
    ELSE IF value.t \in {"object", "date"}
    THEN [set |-> FALSE]
    ELSE [set |-> TRUE, value |-> value]

\* One turn of buildFilters' loop: whether where[key] is assigned, and to what.
FilterEntry(value) ==
    IF value = Undefined \/ value = Null \/ value = Str("")
    THEN [set |-> FALSE]
    ELSE IF isNumberRangeFilter(value)
    THEN [set |-> TRUE, value |-> buildNumberRangeFilter(value)]
    ELSE IF isDateRangeFilter(value)
    THEN [set |-> TRUE, value |-> buildDateRangeFilter(value)]
    ELSE IF value.t = "array"
    THEN (IF Len(value.a) > 0
          THEN [set |-> TRUE, value |-> Obj([in |-> value])]
          ELSE [set |-> FALSE])
    ELSE IF value.t = "boolean"
    THEN [set |-> TRUE, value |-> value]
    ELSE [set |-> TRUE, value |-> value]

buildFilters(filters) ==
    LET kept == {key \in DOMAIN filters : FilterEntry(filters[key]).set}
    IN [key \in kept |-> FilterEntry(filters[key]).value]

\* The enumerable own properties a for...in loop visits: an object's keys, an
\* array's indices, nothing for a Date.
OwnProperties(value) ==
    CASE value.t = "object" -> value.o
      [] value.t = "array" ->
            [key \in {ToString(i - 1) : i \in 1 .. Len(value.a)} |->
                value.a[CHOOSE i \in 1 .. Len(value.a) : ToString(i - 1) = key]]
      [] OTHER -> EmptyObject

\* Mutant: a relation whose built conditions are empty is left out.
buildRelationFilters_SkipEmpty(relationFilters) ==
    LET kept == {relation \in DOMAIN relationFilters :
                    /\ IsTruthy(relationFilters[relation])
                    /\ relationFilters[relation].t \in {"object", "array", "date"}
                    /\ buildFilters(OwnProperties(relationFilters[relation])) # EmptyObject}
    IN [relation \in kept |->
            Obj(buildFilters(OwnProperties(relationFilters[relation])))]

buildRelationFilters(relationFilters) ==
    LET kept == {relation \in DOMAIN relationFilters :
                    /\ IsTruthy(relationFilters[relation])
                    /\ relationFilters[relation].t \in {"object", "array", "date"}}
    IN [relation \in kept |->
            Obj(buildFilters(OwnProperties(relationFilters[relation])))]

\* Mutant: the emptiness test is forgotten.
buildNotFilters_EmptyNot(notFilters) ==
    Obj([NOT |-> Obj(buildFilters(notFilters))])

buildNotFilters(notFilters) ==
    LET filters == buildFilters(notFilters)
    IN IF DOMAIN filters = {} THEN Undefined ELSE Obj([NOT |-> Obj(filters)])

\* Mutant: the spread operands are swapped, the earlier object wins.
Spread_EarlierWins(combined, current) == combined @@ current

\* { ...combined, ...current }: the later object wins on a shared key.
Spread(combined, current) == current @@ combined

RECURSIVE combineFilters(_)
combineFilters(filterObjects) ==
    IF filterObjects = <<>> THEN EmptyObject
    ELSE Spread(combineFilters(SubSeq(filterObjects, 1, Len(filterObjects) - 1)),
                filterObjects[Len(filterObjects)])

\* Mutant: a single surviving map is wrapped like several.
combineFiltersWithOr_AlwaysWrap(filterObjects) ==
    LET validFilters == SelectSeq(filterObjects, LAMBDA f : DOMAIN f # {})
    IN IF Len(validFilters) = 0 THEN Undefined
       ELSE Obj([OR |-> Arr([i \in 1 .. Len(validFilters) |-> Obj(validFilters[i])])])

combineFiltersWithOr(filterObjects) ==
    LET validFilters == SelectSeq(filterObjects, LAMBDA f : DOMAIN f # {})
    IN IF Len(validFilters) = 0 THEN Undefined
       ELSE IF Len(validFilters) = 1 THEN Obj(validFilters[1])
       ELSE Obj([OR |-> Arr([i \in 1 .. Len(validFilters) |-> Obj(validFilters[i])])])

(***************************************************************************)
(* query-builder.ts: the orchestrators.                                    *)
(*                                                                         *)
(* A call builds its argument objects and invokes the data-access methods  *)
(* synchronously, then awaits their promises. A promise settles in one     *)
(* step together with the continuation it wakes: the microtasks that run   *)
(* between a settlement and the resumed await hold no other settlement.    *)
(***************************************************************************)
\* Mutant: the search fragment is merged last and wins every collision.
assembleWhere_SearchLast(a) ==
    LET searchQuery == buildSearchQuery(a.search, a.searchFields)
        filterQuery == buildFilters(Default(a.filters, Obj(EmptyObject)).o)
        relationQuery == buildRelationFilters(Default(a.relationFilters, Obj(EmptyObject)).o)
    IN combineFilters(<< filterQuery,
                         relationQuery,
                         IF IsTruthy(searchQuery) THEN searchQuery.o ELSE EmptyObject >>)

\* The three-statement pipeline every orchestrator repeats:
\* combineFilters(searchQuery || {}, filterQuery, relationQuery).
assembleWhere(a) ==
    LET searchQuery == buildSearchQuery(a.search, a.searchFields)
        filterQuery == buildFilters(Default(a.filters, Obj(EmptyObject)).o)
        relationQuery == buildRelationFilters(Default(a.relationFilters, Obj(EmptyObject)).o)
    IN combineFilters(<< IF IsTruthy(searchQuery) THEN searchQuery.o ELSE EmptyObject,
                         filterQuery,
                         relationQuery >>)

\* ...(include && { include }), ...(select && { select })
IncludeSelect(a) ==
    (IF IsTruthy(a.include) THEN [include |-> a.include] ELSE EmptyObject)
    @@ (IF IsTruthy(a.select) THEN [select |-> a.select] ELSE EmptyObject)

queryBuilderFindManyArgs(a) ==
    LET pagination == getPagination(a.page, a.limit)
        sortBy == Default(a.sortBy, Str("createdAt")).s
        sortOrder == Default(a.sortOrder, Str("desc"))
    IN [where |-> assembleWhere(a),
        take |-> pagination.take,
        skip |-> pagination.skip,
        orderBy |-> Obj(sortBy :> sortOrder)] @@ IncludeSelect(a)

\* Mutant: the count forgets the search fragment.
queryBuilderCountArgs_FiltersOnly(a) ==
    [where |-> buildFilters(Default(a.filters, Obj(EmptyObject)).o)]

queryBuilderCountArgs(a) == [where |-> assembleWhere(a)]

advancedQueryBuilderFindManyArgs(a) ==
    LET pagination == getPagination(a.page, a.limit)
        sortFields == Default(a.sortFields,
                              Arr(<<[field |-> "createdAt", order |-> Str("desc")]>>)).a
    IN [where |-> assembleWhere(a),
        take |-> pagination.take,
        skip |-> pagination.skip,
        orderBy |-> Arr([i \in 1 .. Len(sortFields) |->
                            Obj(sortFields[i].field :> sortFields[i].order)])]
       @@ IncludeSelect(a)

advancedQueryBuilderCountArgs(a) == [where |-> assembleWhere(a)]

\* Mutant: the order is always the single sort key, without the tie-breaker.
cursorQueryBuilderFindManyArgs_SingleOrder(a) ==
    LET cursorField == Default(a.cursorField, Str("id"))
        effectiveSortBy == IF IsTruthy(a.sortBy) THEN a.sortBy ELSE cursorField
        sortOrder == Default(a.sortOrder, Str("desc"))
        cursorPagination == getCursorPagination(a.cursor, cursorField, a.limit)
    IN [orderBy |-> Obj(effectiveSortBy.s :> sortOrder)]
       @@ cursorPagination @@ [where |-> assembleWhere(a)] @@ IncludeSelect(a)

cursorQueryBuilderFindManyArgs(a) ==
    LET cursorField == Default(a.cursorField, Str("id"))
        effectiveSortBy == IF IsTruthy(a.sortBy) THEN a.sortBy ELSE cursorField
        sortOrder == Default(a.sortOrder, Str("desc"))
        cursorPagination == getCursorPagination(a.cursor, cursorField, a.limit)
    IN [orderBy |->
            IF effectiveSortBy = cursorField
            THEN Obj(effectiveSortBy.s :> sortOrder)
            ELSE Arr(<< Obj(effectiveSortBy.s :> sortOrder),
                        Obj(cursorField.s :> sortOrder) >>)]
       @@ cursorPagination @@ [where |-> assembleWhere(a)] @@ IncludeSelect(a)

countQueryCountArgs(a) == [where |-> assembleWhere(a)]

\* { where, ...aggregations }
aggregateQueryAggregateArgs(a) == a.aggregations.o @@ [where |-> assembleWhere(a)]

Pending == [st |-> "pending"]
Fulfilled(v) == [st |-> "fulfilled", v |-> v]
Rejected(e) == [st |-> "rejected", e |-> e]

\* await Promise.all([names...]): rejected with the reason of the first promise
\* to reject, fulfilled with the values in argument order once all are fulfilled.
PromiseAll(ps, names, order) ==
    IF \E i \in 1 .. Len(names) : ps[names[i]].st = "rejected"
    THEN LET first == CHOOSE i \in 1 .. Len(order) :
                        /\ ps[order[i]].st = "rejected"
                        /\ \A j \in 1 .. i - 1 : ps[order[j]].st # "rejected"
         IN Rejected(ps[order[first]].e)
    ELSE IF \A i \in 1 .. Len(names) : ps[names[i]].st = "fulfilled"
    THEN Fulfilled([i \in 1 .. Len(names) |-> ps[names[i]].v])
    ELSE Pending

\* What an async function does once the promise it awaits (or returns) has an
\* outcome: rethrow the rejection, or run the code after the await.
Continue(awaited, result) ==
    CASE awaited.st = "rejected" -> [pc |-> "thrown", ret |-> Undefined, err |-> awaited.e]
      [] awaited.st = "fulfilled" -> [pc |-> "returned", ret |-> result, err |-> Undefined]
      [] OTHER -> [pc |-> "awaiting", ret |-> Undefined, err |-> Undefined]

\* Math.ceil(total / take) for total >= 0 and take >= 1.
CeilDiv(total, take) == (total + take - 1) \div take

\* Mutant: the envelope reports the limit as passed, pages computed from it.
OffsetEnvelope_RawLimit(a, data, total) ==
    LET limit == Default(a.limit, Num(DEFAULT_LIMIT)).n
    IN [data |-> data,
        meta |-> [total |-> total,
                  page |-> Default(a.page, Num(1)).n,
                  limit |-> limit,
                  totalPages |-> IF limit > 0 THEN CeilDiv(total, limit) ELSE 0]]

OffsetEnvelope(a, data, total) ==
    LET take == getPagination(a.page, a.limit).take
    IN [data |-> data,
        meta |-> [total |-> total,
                  page |-> Default(a.page, Num(1)).n,
                  limit |-> take,
                  totalPages |-> CeilDiv(total, take)]]

\* Mutant: a failed count degrades to a partial envelope with total 0.
queryBuilderResume_PartialOnCountFailure(a, ps, order) ==
    LET awaited == PromiseAll(ps, <<"findMany", "count">>, order)
    IN IF ps.findMany.st = "fulfilled" /\ ps.count.st = "rejected"
       THEN [pc |-> "returned", ret |-> OffsetEnvelope(a, ps.findMany.v, 0), err |-> Undefined]
       ELSE Continue(awaited,
                     IF awaited.st = "fulfilled"
                     THEN OffsetEnvelope(a, awaited.v[1], awaited.v[2])
                     ELSE Undefined)

queryBuilderResume(a, ps, order) ==
    LET awaited == PromiseAll(ps, <<"findMany", "count">>, order)
    IN Continue(awaited,
                IF awaited.st = "fulfilled"
                THEN OffsetEnvelope(a, awaited.v[1], awaited.v[2])
                ELSE Undefined)

advancedQueryBuilderResume(a, ps, order) ==
    LET awaited == PromiseAll(ps, <<"findMany", "count">>, order)
    IN Continue(awaited,
                IF awaited.st = "fulfilled"
                THEN OffsetEnvelope(a, awaited.v[1], awaited.v[2])
                ELSE Undefined)

\* Mutant: the untrimmed result list is returned as data.
cursorQueryBuilderResume_Untrimmed(a, ps, order) ==
    LET awaited == ps.findMany
        limit == Default(a.limit, Num(10)).n
        processed == processCursorResults(awaited.v, limit, Default(a.cursorField, Str("id")))
    IN Continue(awaited,
                IF awaited.st = "fulfilled"
                THEN [data |-> awaited.v,
                      meta |-> [nextCursor |-> processed.nextCursor,
                                hasMore |-> processed.hasMore,
                                limit |-> limit]]
                ELSE Undefined)

cursorQueryBuilderResume(a, ps, order) ==
    LET awaited == ps.findMany
        limit == Default(a.limit, Num(10)).n
        processed == processCursorResults(awaited.v, limit, Default(a.cursorField, Str("id")))
    IN Continue(awaited,
                IF awaited.st = "fulfilled"
                THEN [data |-> processed.data,
                      meta |-> [nextCursor |-> processed.nextCursor,
                                hasMore |-> processed.hasMore,
                                limit |-> limit]]
                ELSE Undefined)

countQueryResume(a, ps, order) ==
    Continue(ps.count, IF ps.count.st = "fulfilled" THEN ps.count.v ELSE Undefined)

aggregateQueryResume(a, ps, order) ==
    Continue(ps.aggregate, IF ps.aggregate.st = "fulfilled" THEN ps.aggregate.v ELSE Undefined)

Resume(o, a, ps, order) ==
    CASE o = "queryBuilder" -> queryBuilderResume(a, ps, order)
      [] o = "advancedQueryBuilder" -> advancedQueryBuilderResume(a, ps, order)
      [] o = "cursorQueryBuilder" -> cursorQueryBuilderResume(a, ps, order)
      [] o = "countQuery" -> countQueryResume(a, ps, order)
      [] o = "aggregateQuery" -> aggregateQueryResume(a, ps, order)

(***************************************************************************)
(* Inputs of the pagination calls.                                         *)
(***************************************************************************)
PageInputs == {Undefined} \cup {Num(n) : n \in -1 .. MaxPage}
LimitNumbers == (-1 .. SmallLimit) \cup {MAX_LIMIT - 1, MAX_LIMIT, MAX_LIMIT + 1}
LimitInputs == {Undefined} \cup {Num(n) : n \in LimitNumbers}
CursorInputs == {Undefined, Str(""), Str("a"), Str("cursor-1")}
CursorFieldInputs == {Undefined, Str("id"), Str("seq")}

\* Rows a data source can hold: string or numeric ids, a row without the "seq" field.
Rows ==
    { Obj([id |-> Str("a"), seq |-> Num(7)]),
      Obj([id |-> Num(12)]),
      Obj([id |-> Str("b"), seq |-> Null]) }

RECURSIVE SeqsUpTo(_, _)
SeqsUpTo(S, n) ==
    IF n = 0 THEN {<<>>}
    ELSE LET shorter == SeqsUpTo(S, n - 1)
         IN shorter \cup {Append(s, x) : s \in {q \in shorter : Len(q) = n - 1}, x \in S}

ResultLists == SeqsUpTo(Rows, MaxRows)

NoPromises == [findMany |-> [st |-> "none"], count |-> [st |-> "none"],
               aggregate |-> [st |-> "none"]]

Init ==
    /\ op = "none"
    /\ args = EmptyObject
    /\ ret = Undefined
    /\ pc = "idle"
    /\ err = Undefined
    /\ findManyCalls = <<>>
    /\ countCalls = <<>>
    /\ aggregateCalls = <<>>
    /\ promises = NoPromises
    /\ settled = <<>>
    /\ cache = EmptyObject
    /\ now = 0
    /\ presets = EmptyObject
    /\ baseCalls = <<>>
    /\ basePromises = <<>>
    /\ callsMade = 0
    /\ loop = [st |-> "idle"]

CallGetPagination ==
    \E page \in PageInputs, limit \in LimitInputs :
        /\ op = "none"
        /\ op' = "getPagination"
        /\ args' = [page |-> page, limit |-> limit]
        /\ ret' = getPagination(page, limit)
        /\ UNCHANGED asyncVars
        /\ UNCHANGED <<addonVars, loop>>

CallGetCursorPagination ==
    \E cursor \in CursorInputs, cursorField \in CursorFieldInputs, limit \in LimitInputs :
        /\ op = "none"
        /\ op' = "getCursorPagination"
        /\ args' = [cursor |-> cursor, cursorField |-> cursorField, limit |-> limit]
        /\ ret' = getCursorPagination(cursor, cursorField, limit)
        /\ UNCHANGED asyncVars
        /\ UNCHANGED <<addonVars, loop>>

CallProcessCursorResults ==
    \E results \in ResultLists, limit \in LimitNumbers, cursorField \in CursorFieldInputs :
        /\ op = "none"
        /\ op' = "processCursorResults"
        /\ args' = [results |-> results, limit |-> limit, cursorField |-> cursorField]
        /\ ret' = processCursorResults(results, limit, cursorField)
        /\ UNCHANGED asyncVars
        /\ UNCHANGED <<addonVars, loop>>

NextPagination ==
    \/ CallGetPagination
    \/ CallGetCursorPagination
    \/ CallProcessCursorResults

SpecPagination == Init /\ [][NextPagination]_vars


(***************************************************************************)
(* Inputs of the filter and search calls.                                  *)
(***************************************************************************)
MaxFilterKeys == 2

FilterKeyList == <<"status", "amount", "createdAt", "role">>
FilterKeys == {FilterKeyList[i] : i \in 1 .. Min(MaxFilterKeys, Len(FilterKeyList))}

FilterValues ==
    { Undefined, Null, Str(""), Str("ACTIVE"), Num(0), Num(5), Bool(TRUE), Bool(FALSE),
      Arr(<<>>), Arr(<<Str("ACTIVE"), Str("PENDING")>>),
      DateV(Num(20089)),
      Obj(EmptyObject),
      Obj([role |-> Str("ADMIN")]),
      Obj([from |-> Num(10), to |-> Num(20)]),
      Obj([from |-> Num(0)]),
      Obj([to |-> Num(5), from |-> Null]),
      Obj([from |-> Num(1), to |-> Str("2025-12-31")]),
      Obj([from |-> Str("2025-01-01"), to |-> Str("2025-12-31")]),
      Obj([from |-> DateV(Num(20089))]),
      Obj([from |-> Str(""), to |-> Str("")]),
      Obj([from |-> Undefined, to |-> Undefined]),
      Obj([from |-> Bool(TRUE)]) }

\* Every map over at most MaxFilterKeys of the keys, and the four-key map of
\* dropped values with and without a fifth, retained key.
FilterMaps ==
    UNION {[keys -> FilterValues] : keys \in SUBSET FilterKeys}
    \cup { [a |-> Undefined, b |-> Null, c |-> Str(""), d |-> Arr(<<>>)],
           [a |-> Undefined, b |-> Null, c |-> Str(""), d |-> Arr(<<>>), e |-> Num(1)] }

SearchInputs ==
    {Undefined, Str(""), Str(" "), Str("  "), Str("john"), Str("  test  "), Str("a b ")}

SearchFieldInputs ==
    { Undefined, Null, Str("email"), Arr(<<>>), Arr(<<Str("email")>>),
      Arr(<<Str("email"), Str("username")>>),
      Arr(<<Str("username"), Str("email"), Str("firstName")>>) }

CallBuildFilters ==
    \E filters \in FilterMaps :
        /\ op = "none"
        /\ op' = "buildFilters"
        /\ args' = [filters |-> filters]
        /\ ret' = buildFilters(filters)
        /\ UNCHANGED asyncVars
        /\ UNCHANGED <<addonVars, loop>>

CallBuildSearchQuery ==
    \E search \in SearchInputs, fields \in SearchFieldInputs :
        /\ op = "none"
        /\ op' = "buildSearchQuery"
        /\ args' = [search |-> search, fields |-> fields]
        /\ ret' = buildSearchQuery(search, fields)
        /\ UNCHANGED asyncVars
        /\ UNCHANGED <<addonVars, loop>>

\* A range object: each of from and to is either not a property at all
\* (Absent) or a property holding one of the bounds.
Absent == [t |-> "absent"]

RangeInputs(bounds) ==
    { Obj((IF from = Absent THEN EmptyObject ELSE [from |-> from])
          @@ (IF to = Absent THEN EmptyObject ELSE [to |-> to])) :
        from \in bounds \cup {Absent}, to \in bounds \cup {Absent} }

\* NumberRangeFilter: from?: number, to?: number.
NumberBoundInputs == {Undefined, Num(0), Num(10), Num(20)}

\* DateRangeFilter: from?: Date | string, to?: Date | string.
DateBoundInputs ==
    { Undefined, Str(""), Str("2025-01-01"), Str("2025-12-31"), Str("soon"),
      DateV(Num(0)), DateV(Num(20089)) }

CallBuildNumberRangeFilter ==
    \E range \in RangeInputs(NumberBoundInputs) :
        /\ op = "none"
        /\ op' = "buildNumberRangeFilter"
        /\ args' = [range |-> range]
        /\ ret' = buildNumberRangeFilter(range)
        /\ UNCHANGED asyncVars
        /\ UNCHANGED <<addonVars, loop>>

CallBuildDateRangeFilter ==
    \E range \in RangeInputs(DateBoundInputs) :
        /\ op = "none"
        /\ op' = "buildDateRangeFilter"
        /\ args' = [range |-> range]
        /\ ret' = buildDateRangeFilter(range)
        /\ UNCHANGED asyncVars
        /\ UNCHANGED <<addonVars, loop>>

MaxMaps == 3

\* Filter objects to merge: disjoint keys, shared keys, and shared keys that
\* hold nested objects or arrays.
MergeMaps ==
    { EmptyObject,
      [a |-> Num(1)],
      [b |-> Num(2)],
      [a |-> Num(3), b |-> Str("x")],
      [a |-> Obj([x |-> Num(1)])],
      [a |-> Obj([y |-> Num(2)]), c |-> Bool(TRUE)],
      [a |-> Arr(<<Num(1)>>)],
      [a |-> Arr(<<Num(2)>>)],
      [a |-> Undefined] }

MergeInputs == SeqsUpTo(MergeMaps, MaxMaps)

CallCombineFilters ==
    \E filterObjects \in MergeInputs :
        /\ op = "none"
        /\ op' = "combineFilters"
        /\ args' = [filterObjects |-> filterObjects]
        /\ ret' = Obj(combineFilters(filterObjects))
        /\ UNCHANGED asyncVars
        /\ UNCHANGED <<addonVars, loop>>

CallCombineFiltersWithOr ==
    \E filterObjects \in MergeInputs :
        /\ op = "none"
        /\ op' = "combineFiltersWithOr"
        /\ args' = [filterObjects |-> filterObjects]
        /\ ret' = combineFiltersWithOr(filterObjects)
        /\ UNCHANGED asyncVars
        /\ UNCHANGED <<addonVars, loop>>

RelationKeys == {"user", "event"}

RelationValues ==
    { Undefined, Null, Str(""), Str("x"), Num(0), Num(5), Bool(TRUE), Bool(FALSE),
      Obj(EmptyObject),
      Obj([isActive |-> Bool(TRUE)]),
      Obj([status |-> Str("LIVE"), role |-> Null]),
      Obj([status |-> Undefined, tags |-> Arr(<<>>)]),
      Obj([amount |-> Obj([from |-> Num(10)])]),
      Arr(<<>>), Arr(<<Str("a"), Null>>),
      DateV(Num(0)) }

RelationMaps == UNION {[keys -> RelationValues] : keys \in SUBSET RelationKeys}

CallBuildRelationFilters ==
    \E relationFilters \in RelationMaps :
        /\ op = "none"
        /\ op' = "buildRelationFilters"
        /\ args' = [relationFilters |-> relationFilters]
        /\ ret' = Obj(buildRelationFilters(relationFilters))
        /\ UNCHANGED asyncVars
        /\ UNCHANGED <<addonVars, loop>>

CallBuildNotFilters ==
    \E notFilters \in FilterMaps :
        /\ op = "none"
        /\ op' = "buildNotFilters"
        /\ args' = [notFilters |-> notFilters]
        /\ ret' = buildNotFilters(notFilters)
        /\ UNCHANGED asyncVars
        /\ UNCHANGED <<addonVars, loop>>

NextFilters ==
    \/ CallBuildFilters
    \/ CallBuildSearchQuery
    \/ CallBuildNumberRangeFilter
    \/ CallBuildDateRangeFilter
    \/ CallCombineFilters
    \/ CallCombineFiltersWithOr
    \/ CallBuildRelationFilters
    \/ CallBuildNotFilters

SpecFilters == Init /\ [][NextFilters]_vars

(***************************************************************************)
(* Inputs of the orchestrators and outcomes of the data-access calls.      *)
(***************************************************************************)
MaxCount == 2

WhereInputs ==
    [ search : {Undefined, Str(" "), Str(" john ")},
      searchFields : {Undefined, Arr(<<Str("email")>>)},
      filters : { Undefined,
                  Obj([status |-> Str("ACTIVE")]),
                  Obj([status |-> Bool(TRUE)]),
                  Obj([status |-> Num(5), OR |-> Arr(<<>>), role |-> Null]),
                  Obj([OR |-> Arr(<<Obj([role |-> Str("ADMIN")])>>)]) },
      relationFilters : { Undefined,
                          Obj([profile |-> Obj([isActive |-> Bool(TRUE)])]),
                          Obj([status |-> Obj([role |-> Str("ADMIN")])]),
                          Obj([OR |-> Obj([role |-> Str("ADMIN")])]) } ]

\* The condition inputs of the repository's integration test.
BaseWhere ==
    [ search |-> Str(" john "), searchFields |-> Arr(<<Str("email")>>),
      filters |-> Obj([status |-> Str("ACTIVE")]), relationFilters |-> Undefined ]

OffsetPagingInputs ==
    [ page : {Undefined, Num(0), Num(2)},
      limit : {Undefined, Num(-1), Num(0), Num(2), Num(MAX_LIMIT + 1)} ]

BaseOffsetPaging == [page |-> Num(2), limit |-> Num(2)]

SortInputs ==
    { [sortBy |-> Undefined, sortOrder |-> Undefined, include |-> Undefined, select |-> Undefined],
      [sortBy |-> Str("createdAt"), sortOrder |-> Str("desc"),
       include |-> Obj([profile |-> Bool(TRUE)]), select |-> Obj([id |-> Bool(TRUE)])],
      [sortBy |-> Str("id"), sortOrder |-> Str("asc"),
       include |-> Undefined, select |-> Obj([id |-> Bool(TRUE)])] }

BaseSort ==
    [sortBy |-> Str("createdAt"), sortOrder |-> Str("desc"),
     include |-> Obj([profile |-> Bool(TRUE)]), select |-> Obj([id |-> Bool(TRUE)])]

\* Every condition input with the base paging and sort, and every paging and
\* sort input with the base condition: the three groups feed disjoint parts of
\* the call.
QueryBuilderInputs ==
    {w @@ BaseOffsetPaging @@ BaseSort : w \in WhereInputs}
    \cup {BaseWhere @@ p @@ o : p \in OffsetPagingInputs, o \in SortInputs}

SortFieldsInputs ==
    { Undefined,
      Arr(<<>>),
      Arr(<< [field |-> "createdAt", order |-> Str("desc")],
             [field |-> "email", order |-> Str("asc")] >>) }

AdvancedQueryBuilderInputs ==
    {w @@ p @@ [sortFields |-> f, include |-> Undefined, select |-> Undefined] :
        w \in {BaseWhere, [BaseWhere EXCEPT !.search = Undefined]},
        p \in {BaseOffsetPaging, [page |-> Undefined, limit |-> Num(0)]},
        f \in SortFieldsInputs}

CursorPagingInputs ==
    [ cursor : {Undefined, Str(""), Str("cursor-1")},
      cursorField : {Undefined, Str("seq")},
      limit : {Undefined} \cup {Num(n) : n \in (-1 .. 2) \cup {MAX_LIMIT + 1}} ]

BaseCursorPaging == [cursor |-> Str("cursor-1"), cursorField |-> Undefined, limit |-> Num(2)]

CursorSortInputs ==
    { [sortBy |-> Undefined, sortOrder |-> Undefined, include |-> Undefined, select |-> Undefined],
      [sortBy |-> Str(""), sortOrder |-> Str("asc"), include |-> Undefined, select |-> Undefined],
      [sortBy |-> Str("createdAt"), sortOrder |-> Str("desc"),
       include |-> Obj([speakers |-> Bool(TRUE)]), select |-> Undefined],
      [sortBy |-> Str("id"), sortOrder |-> Str("asc"), include |-> Undefined, select |-> Undefined],
      [sortBy |-> Str("seq"), sortOrder |-> Undefined, include |-> Undefined, select |-> Undefined] }

BaseCursorSort ==
    [sortBy |-> Str("createdAt"), sortOrder |-> Str("desc"),
     include |-> Obj([speakers |-> Bool(TRUE)]), select |-> Undefined]

CursorQueryBuilderInputs ==
    {w @@ BaseCursorPaging @@ BaseCursorSort : w \in WhereInputs}
    \cup {BaseWhere @@ p @@ o : p \in CursorPagingInputs, o \in CursorSortInputs}

AggregationInputs ==
    { Obj([_count |-> Bool(TRUE)]),
      Obj([_count |-> Bool(TRUE), _sum |-> Obj([amount |-> Bool(TRUE)])]) }

AggregateQueryInputs == {w @@ [aggregations |-> g] : w \in WhereInputs, g \in AggregationInputs}

\* Rows of the data source: a string id with a seq, a numeric id without one.
DbRows == { Obj([id |-> Str("a"), seq |-> Num(7)]), Obj([id |-> Num(12)]) }
FindManyResults == SeqsUpTo(DbRows, MaxRows)
CountResults == 0 .. MaxCount
AggregateResults == { Obj([_count |-> Num(1), _sum |-> Obj([amount |-> Num(100)])]) }
Errors == { [t |-> "error", name |-> "E1"], [t |-> "error", name |-> "E2"] }

\* Mutant: the count is not started alongside the list query.
CallQueryBuilder_Sequential ==
    \E a \in QueryBuilderInputs :
        /\ pc = "idle"
        /\ op' = "queryBuilder"
        /\ args' = a
        /\ findManyCalls' = Append(findManyCalls, queryBuilderFindManyArgs(a))
        /\ promises' = [promises EXCEPT !.findMany = Pending]
        /\ pc' = "awaiting"
        /\ UNCHANGED <<ret, err, countCalls, aggregateCalls, settled>>
        /\ UNCHANGED <<addonVars, loop>>

CallQueryBuilder ==
    \E a \in QueryBuilderInputs :
        /\ pc = "idle"
        /\ op' = "queryBuilder"
        /\ args' = a
        /\ findManyCalls' = Append(findManyCalls, queryBuilderFindManyArgs(a))
        /\ countCalls' = Append(countCalls, queryBuilderCountArgs(a))
        /\ promises' = [promises EXCEPT !.findMany = Pending, !.count = Pending]
        /\ pc' = "awaiting"
        /\ UNCHANGED <<ret, err, aggregateCalls, settled>>
        /\ UNCHANGED <<addonVars, loop>>

CallAdvancedQueryBuilder ==
    \E a \in AdvancedQueryBuilderInputs :
        /\ pc = "idle"
        /\ op' = "advancedQueryBuilder"
        /\ args' = a
        /\ findManyCalls' = Append(findManyCalls, advancedQueryBuilderFindManyArgs(a))
        /\ countCalls' = Append(countCalls, advancedQueryBuilderCountArgs(a))
        /\ promises' = [promises EXCEPT !.findMany = Pending, !.count = Pending]
        /\ pc' = "awaiting"
        /\ UNCHANGED <<ret, err, aggregateCalls, settled>>
        /\ UNCHANGED <<addonVars, loop>>

CallCursorQueryBuilder ==
    \E a \in CursorQueryBuilderInputs :
        /\ pc = "idle"
        /\ op' = "cursorQueryBuilder"
        /\ args' = a
        /\ findManyCalls' = Append(findManyCalls, cursorQueryBuilderFindManyArgs(a))
        /\ promises' = [promises EXCEPT !.findMany = Pending]
        /\ pc' = "awaiting"
        /\ UNCHANGED <<ret, err, countCalls, aggregateCalls, settled>>
        /\ UNCHANGED <<addonVars, loop>>

CallCountQuery ==
    \E a \in WhereInputs :
        /\ pc = "idle"
        /\ op' = "countQuery"
        /\ args' = a
        /\ countCalls' = Append(countCalls, countQueryCountArgs(a))
        /\ promises' = [promises EXCEPT !.count = Pending]
        /\ pc' = "awaiting"
        /\ UNCHANGED <<ret, err, findManyCalls, aggregateCalls, settled>>
        /\ UNCHANGED <<addonVars, loop>>

CallAggregateQuery ==
    \E a \in AggregateQueryInputs :
        /\ pc = "idle"
        /\ op' = "aggregateQuery"
        /\ args' = a
        /\ aggregateCalls' = Append(aggregateCalls, aggregateQueryAggregateArgs(a))
        /\ promises' = [promises EXCEPT !.aggregate = Pending]
        /\ pc' = "awaiting"
        /\ UNCHANGED <<ret, err, findManyCalls, countCalls, settled>>
        /\ UNCHANGED <<addonVars, loop>>

\* A data-access promise settles; if the orchestrator is still awaiting, the
\* continuation this wakes runs in the same step.
Settle(name, outcome) ==
    LET ps == [promises EXCEPT ![name] = outcome]
        order == Append(settled, name)
        next == Resume(op, args, ps, order)
    IN /\ promises[name].st = "pending"
       /\ promises' = ps
       /\ settled' = order
       /\ IF pc = "awaiting"
          THEN pc' = next.pc /\ ret' = next.ret /\ err' = next.err
          ELSE UNCHANGED <<pc, ret, err>>
       /\ UNCHANGED <<op, args, findManyCalls, countCalls, aggregateCalls>>
       /\ UNCHANGED <<addonVars, loop>>

\* The data source answers findMany with at most take rows.
FindManyFulfils ==
    \E rows \in FindManyResults :
        /\ findManyCalls # <<>>
        /\ Len(rows) <= findManyCalls[Len(findManyCalls)].take
        /\ Settle("findMany", Fulfilled(rows))

FindManyRejects ==
    \E e \in Errors :
        /\ findManyCalls # <<>>
        /\ Settle("findMany", Rejected(e))

CountFulfils ==
    \E n \in CountResults :
        /\ countCalls # <<>>
        /\ Settle("count", Fulfilled(n))

CountRejects ==
    \E e \in Errors :
        /\ countCalls # <<>>
        /\ Settle("count", Rejected(e))

AggregateFulfils ==
    \E v \in AggregateResults :
        /\ aggregateCalls # <<>>
        /\ Settle("aggregate", Fulfilled(v))

AggregateRejects ==
    \E e \in Errors :
        /\ aggregateCalls # <<>>
        /\ Settle("aggregate", Rejected(e))

Next ==
    \/ CallQueryBuilder
    \/ CallAdvancedQueryBuilder
    \/ CallCursorQueryBuilder
    \/ CallCountQuery
    \/ CallAggregateQuery
    \/ FindManyFulfils
    \/ FindManyRejects
    \/ CountFulfils
    \/ CountRejects
    \/ AggregateFulfils
    \/ AggregateRejects

Spec == Init /\ [][Next]_vars

(***************************************************************************)
(* A client pages through a data set with cursorQueryBuilder: the first    *)
(* call has no cursor, every later call passes the previous                *)
(* meta.nextCursor, and the client stops when meta.hasMore is false. The   *)
(* client awaits each page before it asks for the next, so a call and the  *)
(* answer of the data source are one step.                                 *)
(***************************************************************************)
MaxDataset == 4

\* The rows that match the query, in the order the query asks for, with
\* unique ids: r1, r2, ...
Dataset(n) == [i \in 1 .. n |-> Obj([id |-> Str("r" \o ToString(i))])]

\* model.findMany({cursor, skip, take, ...}) over the ordered rows: start at
\* the row the cursor names (at the first row without a cursor), skip, take.
\* A cursor that names no row gives no rows.
DataSourceFindMany(rows, findArgs) ==
    LET skip == IF "skip" \in DOMAIN findArgs THEN findArgs.skip ELSE 0
        field == CHOOSE f \in DOMAIN findArgs.cursor.o : TRUE
        at == {i \in 1 .. Len(rows) : Get(rows[i].o, field) = findArgs.cursor.o[field]}
        first == IF "cursor" \in DOMAIN findArgs
                 THEN (IF at = {} THEN Len(rows) + 1 ELSE (CHOOSE i \in at : TRUE) + skip)
                 ELSE 1 + skip
    IN SubSeq(rows, first, Min(first + findArgs.take - 1, Len(rows)))

\* The options of one call of the loop.
LoopCallOptions(cursor, limit) ==
    [ search |-> Undefined, searchFields |-> Undefined, filters |-> Undefined,
      relationFilters |-> Undefined, cursor |-> cursor, cursorField |-> Undefined,
      limit |-> limit, sortBy |-> Undefined, sortOrder |-> Undefined,
      include |-> Undefined, select |-> Undefined ]

\* The loop gives up once it has made more calls than any data set of the
\* model needs, or holds more rows than the data set has.
MaxLoopCalls == MaxDataset + 2

\* The client starts on a small data set, or on one longer than MAX_LIMIT + 1
\* rows, with the limit omitted, below 1, small, or above MAX_LIMIT.
StartPaging ==
    \E n \in (0 .. MaxDataset) \cup {MAX_LIMIT + 2},
       limit \in {Undefined} \cup {Num(l) : l \in (-1 .. SmallLimit) \cup {MAX_LIMIT + 1}} :
        /\ loop.st = "idle"
        /\ op = "none"
        /\ loop' = [st |-> "running", rows |-> Dataset(n), limit |-> limit,
                    cursor |-> Undefined, collected |-> <<>>, calls |-> 0]
        /\ UNCHANGED <<op, args, ret, asyncVars, addonVars>>

FetchPage ==
    LET a == LoopCallOptions(loop.cursor, loop.limit)
        findArgs == cursorQueryBuilderFindManyArgs(a)
        answer == Fulfilled(DataSourceFindMany(loop.rows, findArgs))
        next == cursorQueryBuilderResume(a, [promises EXCEPT !.findMany = answer],
                                         Append(settled, "findMany"))
    IN /\ loop.st = "running"
       /\ loop.calls < MaxLoopCalls
       /\ Len(loop.collected) <= Len(loop.rows)
       /\ op' = "cursorQueryBuilder"
       /\ args' = a
       /\ findManyCalls' = Append(findManyCalls, findArgs)
       /\ promises' = [promises EXCEPT !.findMany = answer]
       /\ settled' = Append(settled, "findMany")
       /\ pc' = next.pc
       /\ ret' = next.ret
       /\ err' = next.err
       /\ loop' = [loop EXCEPT !.collected = loop.collected \o next.ret.data,
                               !.cursor = next.ret.meta.nextCursor,
                               !.calls = loop.calls + 1,
                               !.st = IF next.ret.meta.hasMore THEN "running" ELSE "done"]
       /\ UNCHANGED <<countCalls, aggregateCalls, addonVars>>

NextPaging ==
    \/ StartPaging
    \/ FetchPage

SpecPaging == Init /\ [][NextPaging]_vars

(***************************************************************************)
(* The add-ons of advanced-features wrap the base query. Each wrapper      *)
(* hands its options to queryBuilder and awaits the promise it gets back:  *)
(* baseCalls holds the options of every queryBuilder call in call order,   *)
(* basePromises the promise of each. What queryBuilder does with the       *)
(* options is modelled above; here its promise settles with any result or  *)
(* with any error.                                                         *)
(***************************************************************************)
MaxCalls == 3
MaxTime == 2

AddonOptions ==
    { Obj([model |-> Str("User")]),
      Obj([model |-> Str("User"), page |-> Num(1)]) }

BaseResults ==
    { Obj([data |-> Arr(<<>>)]),
      Obj([data |-> Arr(<<Obj([id |-> Num(1)])>>)]) }

BaseOutcomes == {Fulfilled(r) : r \in BaseResults} \cup {Rejected(e) : e \in Errors}

\* A wrapper may be called when no wrapper call is waiting for its query.
NoCallInFlight == pc \in {"idle", "returned", "thrown"}

\* queryBuilder(options): the call is recorded and its promise is pending.
CallBase(options) ==
    /\ baseCalls' = Append(baseCalls, options)
    /\ basePromises' = Append(basePromises, Pending)

(***************************************************************************)
(* The cache wrapper and the default in-memory store: a map from key to    *)
(* {value, expiry}. An entry is served while the clock is before its       *)
(* expiry; set(key, value, ttl) stamps the entry with the clock plus ttl.  *)
(***************************************************************************)
CacheKeys == {"k1", "k2"}
TtlInputs == 1 .. MaxTime

\* Mutant: the store serves an entry whatever its expiry.
MemoryStoreGet_IgnoreExpiry(store, key, t) ==
    IF key \in DOMAIN store THEN store[key].value ELSE Null

\* store.get(key) -> value | null
MemoryStoreGet(store, key, t) ==
    IF key \in DOMAIN store /\ t < store[key].expiry THEN store[key].value ELSE Null

\* store.set(key, value, ttl)
MemoryStoreSet(store, key, value, ttl, t) ==
    [k \in DOMAIN store \cup {key} |->
        IF k = key THEN [value |-> value, expiry |-> t + ttl] ELSE store[k]]

\* cachedQueryBuilder(options, {key, ttl}) up to its await: a stored value is
\* returned without a query, otherwise the base query is started.
CallCachedQueryBuilder ==
    \E options \in {Obj([model |-> Str("User")])}, key \in CacheKeys, ttl \in TtlInputs :
        LET cached == MemoryStoreGet(cache, key, now)
        IN /\ NoCallInFlight
           /\ callsMade < MaxCalls
           /\ callsMade' = callsMade + 1
           /\ op' = "cachedQueryBuilder"
           /\ args' = [options |-> options, cache |-> [key |-> key, ttl |-> ttl]]
           /\ err' = Undefined
           /\ IF cached # Null
              THEN /\ pc' = "returned"
                   /\ ret' = cached
                   /\ UNCHANGED <<baseCalls, basePromises>>
              ELSE /\ pc' = "awaiting"
                   /\ ret' = Undefined
                   /\ CallBase(options)
           /\ UNCHANGED <<cache, now, presets, loop>>
           /\ UNCHANGED <<findManyCalls, countCalls, aggregateCalls, promises, settled>>

\* setCacheStore(store): a new, empty store replaces the current one.
CallSetCacheStore ==
    /\ NoCallInFlight
    /\ cache # EmptyObject
    /\ cache' = EmptyObject
    /\ UNCHANGED <<op, args, ret, asyncVars, now, presets, baseCalls, basePromises,
                   callsMade, loop>>

\* Time passes.
Tick ==
    /\ now < MaxTime + 1
    /\ now' = now + 1
    /\ UNCHANGED <<op, args, ret, asyncVars, cache, presets, baseCalls, basePromises,
                   callsMade, loop>>

(***************************************************************************)
(* The preset registry: names with their stored options, in the order the  *)
(* names were first saved.                                                 *)
(***************************************************************************)
PresetNames == {"users", "orders"}
OverrideInputs == {EmptyObject, [page |-> Num(2)], [limit |-> Num(5)]}

HasPreset(registry, name) == \E i \in 1 .. Len(registry) : registry[i].name = name

PresetAt(registry, name) == CHOOSE i \in 1 .. Len(registry) : registry[i].name = name

saveQueryPreset(registry, name, options) ==
    IF HasPreset(registry, name)
    THEN [registry EXCEPT ![PresetAt(registry, name)].options = options]
    ELSE Append(registry, [name |-> name, options |-> options])

loadQueryPreset(registry, name) ==
    IF HasPreset(registry, name) THEN registry[PresetAt(registry, name)].options
    ELSE Undefined

listPresets(registry) == Arr([i \in 1 .. Len(registry) |-> Str(registry[i].name)])

deletePreset(registry, name) == SelectSeq(registry, LAMBDA p : p.name # name)

\* Mutant: the stored options win over the overrides.
MergeOverrides_StoredWins(stored, overrides) == Obj(stored.o @@ overrides)

\* { ...preset, ...overrides }
MergeOverrides(stored, overrides) == Obj(Spread(stored.o, overrides))

\* A call that returns without awaiting anything.
ReturnsAtOnce(name, a, value) ==
    /\ NoCallInFlight
    /\ callsMade < MaxCalls
    /\ callsMade' = callsMade + 1
    /\ op' = name
    /\ args' = a
    /\ ret' = value
    /\ pc' = "returned"
    /\ err' = Undefined
    /\ UNCHANGED <<findManyCalls, countCalls, aggregateCalls, promises, settled>>
    /\ UNCHANGED <<cache, now, baseCalls, basePromises, loop>>

CallSaveQueryPreset ==
    \E name \in PresetNames, options \in AddonOptions :
        /\ ReturnsAtOnce("saveQueryPreset", [name |-> name, options |-> options], Undefined)
        /\ presets' = saveQueryPreset(presets, name, options)

CallLoadQueryPreset ==
    \E name \in PresetNames :
        /\ ReturnsAtOnce("loadQueryPreset", [name |-> name], loadQueryPreset(presets, name))
        /\ UNCHANGED presets

CallListPresets ==
    /\ ReturnsAtOnce("listPresets", EmptyObject, listPresets(presets))
    /\ UNCHANGED presets

CallDeletePreset ==
    \E name \in PresetNames :
        /\ ReturnsAtOnce("deletePreset", [name |-> name], Bool(HasPreset(presets, name)))
        /\ presets' = deletePreset(presets, name)

\* executePreset(name, overrides) up to its await; a name that is not
\* registered is an error.
CallExecutePreset ==
    \E name \in PresetNames, overrides \in OverrideInputs :
        /\ NoCallInFlight
        /\ callsMade < MaxCalls
        /\ callsMade' = callsMade + 1
        /\ op' = "executePreset"
        /\ args' = [name |-> name, overrides |-> overrides]
        /\ ret' = Undefined
        /\ IF HasPreset(presets, name)
           THEN /\ pc' = "awaiting"
                /\ err' = Undefined
                /\ CallBase(MergeOverrides(loadQueryPreset(presets, name), overrides))
           ELSE /\ pc' = "thrown"
                /\ err' = [t |-> "error", name |-> "PresetNotFound"]
                /\ UNCHANGED <<baseCalls, basePromises>>
        /\ UNCHANGED <<cache, now, presets, loop>>
        /\ UNCHANGED <<findManyCalls, countCalls, aggregateCalls, promises, settled>>

(***************************************************************************)
(* Soft delete.                                                            *)
(***************************************************************************)
SoftDeleteInputs ==
    { Undefined,
      Obj([includeTrashed |-> Bool(TRUE)]),
      Obj([includeTrashed |-> Bool(FALSE)]),
      Obj([trashedOnly |-> Bool(TRUE)]) }

buildSoftDeleteFilter(options) ==
    IF options # Undefined /\ IsTruthy(Get(options.o, "includeTrashed"))
    THEN EmptyObject
    ELSE IF options # Undefined /\ IsTruthy(Get(options.o, "trashedOnly"))
    THEN [deletedAt |-> Obj([not |-> Null])]
    ELSE [deletedAt |-> Null]

CallBuildSoftDeleteFilter ==
    \E options \in SoftDeleteInputs :
        /\ op = "none"
        /\ op' = "buildSoftDeleteFilter"
        /\ args' = [options |-> options]
        /\ ret' = buildSoftDeleteFilter(options)
        /\ UNCHANGED asyncVars
        /\ UNCHANGED <<addonVars, loop>>

SoftDeleteCallerOptions ==
    { Obj([model |-> Str("User")]),
      Obj([model |-> Str("User"), filters |-> Obj([status |-> Str("ACTIVE")])]),
      Obj([model |-> Str("User"), page |-> Num(2),
           filters |-> Obj([status |-> Str("ACTIVE"), role |-> Str("ADMIN")])]),
      Obj([model |-> Str("User"), filters |-> Obj([deletedAt |-> Str("2024-01-01")])]) }

\* Mutant: the caller's filters are replaced by the soft-delete filter.
softDeleteOptions_DropsCallerFilters(options, softDelete) ==
    Obj(Spread(options.o, [filters |-> Obj(buildSoftDeleteFilter(softDelete))]))

\* { ...options, filters: { ...options.filters, ...softDeleteFilter } }
softDeleteOptions(options, softDelete) ==
    LET given == Get(options.o, "filters")
        callerFilters == IF given = Undefined THEN EmptyObject ELSE given.o
    IN Obj(Spread(options.o,
                  [filters |-> Obj(Spread(callerFilters, buildSoftDeleteFilter(softDelete)))]))

\* softDeleteQueryBuilder(options, softDeleteOptions) up to its await.
CallSoftDeleteQueryBuilder ==
    \E options \in SoftDeleteCallerOptions, softDelete \in SoftDeleteInputs :
        /\ op = "none"
        /\ op' = "softDeleteQueryBuilder"
        /\ args' = [options |-> options, softDelete |-> softDelete]
        /\ pc' = "awaiting"
        /\ CallBase(softDeleteOptions(options, softDelete))
        /\ UNCHANGED <<ret, err, cache, now, presets, callsMade, loop>>
        /\ UNCHANGED <<findManyCalls, countCalls, aggregateCalls, promises, settled>>

(***************************************************************************)
(* The batch runner: every named query is started before any is awaited,   *)
(* and the results are awaited together.                                   *)
(***************************************************************************)
MaxBatch == 2

BatchNames == <<"users", "orders", "items", "tags">>

BatchQueries(n) ==
    [i \in 1 .. n |-> [name |-> BatchNames[i],
                       options |-> Obj([model |-> Str(BatchNames[i])])]]

\* The mapping from each query's name to its result.
BatchResult(queries, ps) ==
    Obj([name \in {queries[i].name : i \in 1 .. Len(queries)} |->
            ps[CHOOSE i \in 1 .. Len(queries) : queries[i].name = name].v])

CallBatchQueryBuilder ==
    \E n \in 0 .. MaxBatch :
        LET queries == BatchQueries(n)
        IN /\ op = "none"
           /\ op' = "batchQueryBuilder"
           /\ args' = [queries |-> queries]
           /\ baseCalls' = baseCalls \o [i \in 1 .. n |-> queries[i].options]
           /\ basePromises' = basePromises \o [i \in 1 .. n |-> Pending]
           /\ pc' = IF n = 0 THEN "returned" ELSE "awaiting"
           /\ ret' = IF n = 0 THEN Obj(EmptyObject) ELSE Undefined
           /\ UNCHANGED <<err, cache, now, presets, callsMade, loop>>
           /\ UNCHANGED <<findManyCalls, countCalls, aggregateCalls, promises, settled>>

(***************************************************************************)
(* A base query settles and the wrapper that awaits it goes on.            *)
(***************************************************************************)
Returned(value, store) == [pc |-> "returned", ret |-> value, err |-> Undefined, cache |-> store]
Thrown(e, store) == [pc |-> "thrown", ret |-> Undefined, err |-> e, cache |-> store]
StillAwaiting(store) == [pc |-> "awaiting", ret |-> Undefined, err |-> Undefined, cache |-> store]

\* Mutant: the batch waits for every query and then fails with the rejection
\* of the earliest query in the list.
AwaitAll_EarliestInList(ps, outcome, done) ==
    IF \E i \in 1 .. Len(ps) : ps[i].st = "pending" THEN StillAwaiting(cache)
    ELSE IF \E i \in 1 .. Len(ps) : ps[i].st = "rejected"
    THEN Thrown(ps[CHOOSE i \in 1 .. Len(ps) :
                       /\ ps[i].st = "rejected"
                       /\ \A j \in 1 .. i - 1 : ps[j].st # "rejected"].e, cache)
    ELSE Returned(done, cache)

\* await Promise.all(promises): the first rejection is thrown at once; the
\* function goes on when every promise is fulfilled.
AwaitAll(ps, outcome, done) ==
    IF outcome.st = "rejected" THEN Thrown(outcome.e, cache)
    ELSE IF \A i \in 1 .. Len(ps) : ps[i].st = "fulfilled" THEN Returned(done, cache)
    ELSE StillAwaiting(cache)

\* const result = await queryBuilder(options); store.set(key, result, ttl)
cachedQueryBuilderResume(a, outcome) ==
    IF outcome.st = "rejected" THEN Thrown(outcome.e, cache)
    ELSE Returned(outcome.v, MemoryStoreSet(cache, a.cache.key, outcome.v, a.cache.ttl, now))

AddonResume(o, a, ps, outcome) ==
    CASE o = "cachedQueryBuilder" -> cachedQueryBuilderResume(a, outcome)
      [] o = "batchQueryBuilder" -> AwaitAll(ps, outcome, BatchResult(a.queries, ps))
      [] OTHER -> \* return queryBuilder(...)
                  IF outcome.st = "rejected" THEN Thrown(outcome.e, cache)
                  ELSE Returned(outcome.v, cache)

SettleBase ==
    \E i \in 1 .. Len(basePromises), outcome \in BaseOutcomes :
        LET ps == [basePromises EXCEPT ![i] = outcome]
            next == AddonResume(op, args, ps, outcome)
        IN /\ basePromises[i] = Pending
           /\ basePromises' = ps
           /\ IF pc = "awaiting"
              THEN pc' = next.pc /\ ret' = next.ret /\ err' = next.err /\ cache' = next.cache
              ELSE UNCHANGED <<pc, ret, err, cache>>
           /\ UNCHANGED <<op, args, now, presets, baseCalls, callsMade, loop>>
           /\ UNCHANGED <<findManyCalls, countCalls, aggregateCalls, promises, settled>>

NextCache ==
    \/ CallCachedQueryBuilder
    \/ CallSetCacheStore
    \/ Tick
    \/ SettleBase

SpecCache == Init /\ [][NextCache]_vars

NextPresets ==
    \/ CallSaveQueryPreset
    \/ CallLoadQueryPreset
    \/ CallListPresets
    \/ CallDeletePreset
    \/ CallExecutePreset
    \/ SettleBase

SpecPresets == Init /\ [][NextPresets]_vars

NextWrappers ==
    \/ CallBuildSoftDeleteFilter
    \/ CallSoftDeleteQueryBuilder
    \/ CallBatchQueryBuilder
    \/ SettleBase

SpecWrappers == Init /\ [][NextWrappers]_vars

(***************************************************************************)
(* Claims about the pagination calculator (checked under SpecPagination).  *)
(***************************************************************************)
\* The limit a caller asked for, clamped to [1, 100], stated case by case.
ClampedLimit(l) == IF l < 1 THEN 1 ELSE IF l > 100 THEN 100 ELSE l

\* The number an optional numeric argument stands for.
NumberOr(v, d) == IF v = Undefined THEN d ELSE v.n

\* C1: getPagination, for every integer page and limit (0, negative and > 100
\* included), returns take = the limit clamped to [1,100] and
\* skip = (max(1,page) - 1) * take; so take is in 1..100, skip >= 0, and for
\* page >= 1 and limit in 1..100 take = limit and skip = (page-1)*limit.
C1_OffsetPagination ==
    op = "getPagination" =>
        LET page == NumberOr(args.page, 1)
            limit == NumberOr(args.limit, 10)
        IN /\ DOMAIN ret = {"take", "skip"}
           /\ ret.take = ClampedLimit(limit)
           /\ ret.take \in 1 .. 100
           /\ ret.skip >= 0
           /\ (page < 1 => ret.skip = 0)
           /\ (page >= 1 => ret.skip = (page - 1) * ret.take)
           /\ (page >= 1 /\ limit \in 1 .. 100 =>
                   ret.take = limit /\ ret.skip = (page - 1) * limit)

C1_Witness ==
    /\ op = "getPagination"
    /\ args.page = Num(0)
    /\ args.limit = Num(101)
    /\ ret = [take |-> 100, skip |-> 0]

\* C2: getCursorPagination returns take = clamped limit + 1 for every limit;
\* with a cursor (a non-empty string) it also returns skip = 1 and
\* cursor = {[cursorField]: cursor}, cursorField defaulting to "id"; with no
\* cursor the result has the take key only.
C2_CursorPagination ==
    op = "getCursorPagination" =>
        LET limit == NumberOr(args.limit, 10)
            field == IF args.cursorField = Undefined THEN "id" ELSE args.cursorField.s
            given == args.cursor # Undefined /\ args.cursor # Str("")
        IN /\ ret.take = ClampedLimit(limit) + 1
           /\ (given =>
                   /\ DOMAIN ret = {"take", "skip", "cursor"}
                   /\ ret.skip = 1
                   /\ ret.cursor.t = "object"
                   /\ DOMAIN ret.cursor.o = {field}
                   /\ ret.cursor.o[field] = args.cursor)
           /\ (~given => DOMAIN ret = {"take"})

C2_Witness ==
    /\ op = "getCursorPagination"
    /\ args.cursor = Str("cursor-1")
    /\ args.cursorField = Str("seq")
    /\ args.limit = Num(0)
    /\ ret = [take |-> 2, skip |-> 1, cursor |-> Obj([seq |-> Str("cursor-1")])]

\* C3: processCursorResults on limit+1 results returns the results without
\* their last element (order kept), hasMore = true and nextCursor = the string
\* form of the cursor field of the last element kept; on at most limit results
\* it returns them unchanged with hasMore = false and nextCursor = null.
C3_ReconcileCursorResults ==
    op = "processCursorResults" =>
        LET results == args.results
            n == Len(results)
            field == IF args.cursorField = Undefined THEN "id" ELSE args.cursorField.s
        IN /\ (n = args.limit + 1 =>
                   /\ ret.hasMore = TRUE
                   /\ Len(ret.data) = Max(n - 1, 0)
                   /\ \A i \in 1 .. Len(ret.data) : ret.data[i] = results[i]
                   /\ (Len(ret.data) > 0 /\ field \in DOMAIN ret.data[Len(ret.data)].o =>
                           ret.nextCursor = Str(JsString(ret.data[Len(ret.data)].o[field]))))
           /\ (n <= args.limit =>
                   /\ ret.data = results
                   /\ ret.hasMore = FALSE
                   /\ ret.nextCursor = Null)

C3_Witness ==
    /\ op = "processCursorResults"
    /\ args.limit = 2
    /\ Len(args.results) = 3
    /\ args.results[2] = Obj([id |-> Num(12)])
    /\ args.results[3] # args.results[2]
    /\ args.cursorField = Undefined
    /\ ret.hasMore = TRUE
    /\ Len(ret.data) = 2
    /\ ret.nextCursor = Str("12")

(***************************************************************************)
(* Claims about the orchestrators (checked under Spec).                    *)
(***************************************************************************)
\* The cursor field a cursorQueryBuilder call names ("id" unless given).
CursorFieldOf(a) == IF a.cursorField = Undefined THEN "id" ELSE a.cursorField.s

\* An optional string argument counts as given when it is a non-empty string.
IsGiven(v) == v # Undefined /\ v # Str("")

\* C4: cursorQueryBuilder, when the data source returns limit + 1 rows,
\* resolves with data = the first limit rows, meta.hasMore = true and
\* meta.nextCursor = the cursor field of the last row of data (as a string);
\* it invokes findMany exactly once and never invokes count.
C4_CursorEndToEnd ==
    op = "cursorQueryBuilder" =>
        /\ Len(findManyCalls) = 1
        /\ countCalls = <<>>
        /\ promises.count.st = "none"
        /\ (pc = "returned" =>
               LET rows == promises.findMany.v
                   limit == NumberOr(args.limit, 10)
                   field == CursorFieldOf(args)
                   last == ret.data[Len(ret.data)]
               IN Len(rows) = limit + 1 =>
                      /\ Len(ret.data) = Max(limit, 0)
                      /\ \A i \in 1 .. Len(ret.data) : ret.data[i] = rows[i]
                      /\ ret.meta.hasMore = TRUE
                      /\ (ret.data # <<>> /\ field \in DOMAIN last.o =>
                             /\ ret.meta.nextCursor = Str(JsString(last.o[field]))
                             /\ (last.o[field].t = "string" =>
                                    ret.meta.nextCursor = last.o[field])))

C4_Witness ==
    /\ op = "cursorQueryBuilder"
    /\ pc = "returned"
    /\ args.limit = Num(2)
    /\ args.cursorField = Undefined
    /\ Len(promises.findMany.v) = 3
    /\ promises.findMany.v[2] = Obj([id |-> Str("a"), seq |-> Num(7)])
    /\ promises.findMany.v[3] = Obj([id |-> Num(12)])
    /\ Len(ret.data) = 2
    /\ ret.meta.hasMore = TRUE
    /\ ret.meta.nextCursor = Str("a")

C6_SingleKeyOrderBy ==
    (/\ op = "cursorQueryBuilder"
     /\ IsGiven(args.cursor)
     /\ args.cursorField = Undefined
     /\ args.sortBy = Str("createdAt")
     /\ args.limit # Undefined
     /\ args.limit.n \in 1 .. 100) =>
        LET call == findManyCalls[1]
            sortOrder == IF args.sortOrder = Undefined THEN Str("desc") ELSE args.sortOrder
        IN /\ call.take = args.limit.n + 1
           /\ call.skip = 1
           /\ call.cursor = Obj([id |-> args.cursor])
           /\ call.orderBy = Obj([createdAt |-> sortOrder])

\* The search clause a term over a list of fields stands for.
SearchClause(term, fields) ==
    Arr([i \in 1 .. Len(fields) |->
            Obj(fields[i].s :> Obj([contains |-> Str(Trim(term)),
                                    mode |-> Str("insensitive")]))])

\* C7: queryBuilder invokes findMany exactly once and count exactly once per
\* call, with the same where; with a non-blank search over a non-empty
\* searchFields and filters = {status: v} (v a string, number or boolean, no
\* relation filter on OR or status) that where holds the OR search clause
\* and status = v.
C7_OneListOneCountSameWhere ==
    op = "queryBuilder" =>
        /\ Len(findManyCalls) = 1
        /\ Len(countCalls) = 1
        /\ findManyCalls[1].where = countCalls[1].where
        /\ LET where == findManyCalls[1].where
               relations == IF args.relationFilters = Undefined
                            THEN {} ELSE DOMAIN args.relationFilters.o
           IN (/\ IsGiven(args.search)
               /\ Trim(args.search.s) # ""
               /\ args.searchFields # Undefined
               /\ args.searchFields.t = "array"
               /\ Len(args.searchFields.a) > 0
               /\ args.filters # Undefined
               /\ DOMAIN args.filters.o = {"status"}
               /\ args.filters.o.status.t \in {"string", "number", "boolean"}
               /\ args.filters.o.status # Str("")
               /\ relations \cap {"OR", "status"} = {}) =>
                  /\ {"OR", "status"} \subseteq DOMAIN where
                  /\ where.OR = SearchClause(args.search.s, args.searchFields.a)
                  /\ where.status = args.filters.o.status

C7_Witness ==
    /\ op = "queryBuilder"
    /\ pc = "returned"
    /\ args.search = Str(" john ")
    /\ args.searchFields = Arr(<<Str("email")>>)
    /\ args.filters = Obj([status |-> Str("ACTIVE")])
    /\ args.relationFilters = Obj([profile |-> Obj([isActive |-> Bool(TRUE)])])
    /\ countCalls[1].where.status = Str("ACTIVE")
    /\ countCalls[1].where.OR =
           Arr(<<Obj([email |-> Obj([contains |-> Str("john"), mode |-> Str("insensitive")])])>>)

\* C8: queryBuilder and advancedQueryBuilder start the list query and the
\* count query together, before either has settled, and the envelope they
\* resolve with holds findMany's rows as data and count's number as total in
\* whichever order the two settle.
C8_ListAndCountConcurrent ==
    op \in {"queryBuilder", "advancedQueryBuilder"} =>
        /\ promises.findMany.st # "none"
        /\ promises.count.st # "none"
        /\ Len(findManyCalls) = 1
        /\ Len(countCalls) = 1
        /\ (pc = "returned" =>
               /\ Len(settled) = 2
               /\ ret.data = promises.findMany.v
               /\ ret.meta.total = promises.count.v)
        /\ (promises.findMany.st = "fulfilled" /\ promises.count.st = "fulfilled" =>
               pc = "returned")

C8_Witness ==
    /\ op = "queryBuilder"
    /\ pc = "returned"
    /\ settled = <<"count", "findMany">>
    /\ Len(ret.data) = 2
    /\ ret.meta.total = 1

\* The data-access promises an orchestrator awaits.
AwaitedBy(o) ==
    CASE o \in {"queryBuilder", "advancedQueryBuilder"} -> {"findMany", "count"}
      [] o = "cursorQueryBuilder" -> {"findMany"}
      [] o = "countQuery" -> {"count"}
      [] o = "aggregateQuery" -> {"aggregate"}
      [] OTHER -> {}

\* The promises of the current call that have rejected.
RejectedNow == {n \in AwaitedBy(op) : promises[n].st = "rejected"}

\* C9 as stated: whenever a data-access operation of the call has failed, the
\* orchestrator has failed with that operation's error, has produced no
\* envelope, and no operation was invoked more than once.
C9_FailsWithThatError ==
    /\ Len(findManyCalls) <= 1 /\ Len(countCalls) <= 1 /\ Len(aggregateCalls) <= 1
    /\ \A n \in RejectedNow :
           pc = "thrown" /\ ret = Undefined /\ err = promises[n].e

\* The promise of the current call that rejected first.
FirstRejected ==
    settled[CHOOSE i \in 1 .. Len(settled) :
                /\ settled[i] \in RejectedNow
                /\ \A j \in 1 .. i - 1 : settled[j] \notin RejectedNow]

\* C9 amended: whenever a data-access operation of the call has failed, the
\* orchestrator has failed with the error of the first operation that failed
\* (a later failure of the other operation is discarded), unchanged; it has
\* produced no envelope, even if findMany succeeded, and no operation was
\* invoked more than once. It fails only if an operation failed.
C9_FailsWithFirstError ==
    /\ Len(findManyCalls) <= 1 /\ Len(countCalls) <= 1 /\ Len(aggregateCalls) <= 1
    /\ (RejectedNow # {} =>
           /\ pc = "thrown"
           /\ ret = Undefined
           /\ err = promises[FirstRejected].e)
    /\ (pc = "thrown" => RejectedNow # {})
    /\ (pc = "returned" => RejectedNow = {} /\ err = Undefined)

C9_Witness ==
    /\ op = "queryBuilder"
    /\ promises.findMany.st = "fulfilled"
    /\ Len(promises.findMany.v) = 2
    /\ promises.count.st = "rejected"
    /\ pc = "thrown"
    /\ err = promises.count.e
    /\ ret = Undefined

(***************************************************************************)
(* Claims about the filter builder (checked under SpecFilters).            *)
(***************************************************************************)
\* The values the filter builder is said to drop.
IsOmittedValue(v) == v = Undefined \/ v = Null \/ v = Str("") \/ v = Arr(<<>>)

\* C10: buildFilters omits every key whose value is undefined, null, "" or an
\* empty array; every other key of the input still appears in the output, and
\* what it maps to is what it maps to when the omitted keys are not passed at
\* all; an input of omitted values only gives {}.
C10_OmittedKeys ==
    op = "buildFilters" =>
        LET filters == args.filters
            omitted == {k \in DOMAIN filters : IsOmittedValue(filters[k])}
            others == DOMAIN filters \ omitted
            alone == buildFilters([k \in others |-> filters[k]])
        IN /\ \A k \in omitted : k \notin DOMAIN ret
           /\ DOMAIN ret = others
           /\ \A k \in others : ret[k] = alone[k]
           /\ (others = {} => ret = EmptyObject)

C10_Witness ==
    /\ op = "buildFilters"
    /\ DOMAIN args.filters = {"a", "b", "c", "d", "e"}
    /\ args.filters.d = Arr(<<>>)
    /\ ret = [e |-> Num(1)]


\* The shapes the dispatch is described by: a non-array object with a from or
\* a to property, at least one of them a number / a string or a Date.
HasBoundKey(v) == v.t = "object" /\ ("from" \in DOMAIN v.o \/ "to" \in DOMAIN v.o)

IsNumericRangeShape(v) ==
    HasBoundKey(v) /\ (Get(v.o, "from").t = "number" \/ Get(v.o, "to").t = "number")

IsDateRangeShape(v) ==
    HasBoundKey(v) /\ (Get(v.o, "from").t \in {"string", "date"}
                       \/ Get(v.o, "to").t \in {"string", "date"})

\* A condition with no keys other than gte and lte, holding at least one.
IsRangeCondition(c) ==
    c.t = "object" /\ DOMAIN c.o \subseteq {"gte", "lte"} /\ DOMAIN c.o # {}

\* C11: buildFilters dispatches every retained value in a fixed order: an
\* object with a numeric from/to becomes a numeric range whose bounds are the
\* values as given (also when the other bound is a string); otherwise an
\* object with a string or Date from/to becomes a range over gte/lte whose
\* bounds are Dates made from the given ones; a non-empty array becomes
\* {in: array}; a boolean and anything else are kept as the literal.
C11_DispatchOrder ==
    op = "buildFilters" =>
        \A k \in DOMAIN args.filters :
            LET v == args.filters[k]
                from == Get(v.o, "from")
                to == Get(v.o, "to")
            IN ~IsOmittedValue(v) =>
                /\ k \in DOMAIN ret
                /\ CASE IsNumericRangeShape(v) ->
                            /\ IsRangeCondition(ret[k])
                            /\ from.t = "number" => Get(ret[k].o, "gte") = from
                            /\ to.t = "number" => Get(ret[k].o, "lte") = to
                            /\ \A b \in DOMAIN ret[k].o : ret[k].o[b].t # "date"
                     [] ~IsNumericRangeShape(v) /\ IsDateRangeShape(v) ->
                            /\ ret[k].t = "object"
                            /\ DOMAIN ret[k].o \subseteq {"gte", "lte"}
                            /\ "gte" \in DOMAIN ret[k].o => ret[k].o.gte = NewDate(from)
                            /\ "lte" \in DOMAIN ret[k].o => ret[k].o.lte = NewDate(to)
                            /\ \A b \in DOMAIN ret[k].o : ret[k].o[b].t = "date"
                            /\ (from.t = "date" \/ (from.t = "string" /\ from.s # ""))
                                    => "gte" \in DOMAIN ret[k].o
                            /\ (to.t = "date" \/ (to.t = "string" /\ to.s # ""))
                                    => "lte" \in DOMAIN ret[k].o
                     [] v.t = "array" -> ret[k] = Obj([in |-> v])
                     [] v.t = "boolean" -> ret[k] = v
                     [] OTHER -> ret[k] = v

\* An object with one numeric and one string bound came out as a numeric range.
C11_Witness ==
    /\ op = "buildFilters"
    /\ \E k \in DOMAIN args.filters :
        /\ args.filters[k] = Obj([from |-> Num(1), to |-> Str("2025-12-31")])
        /\ k \in DOMAIN ret
        /\ ret[k] = Obj([gte |-> Num(1), lte |-> Str("2025-12-31")])

\* A bound is supplied when the range has the property with a value other than
\* undefined.
IsSupplied(range, bound) == Get(range.o, bound) # Undefined

\* The bound as the builder emits it: a number as it is, a date bound as a Date.
EmittedBound(o, v) == IF o = "buildDateRangeFilter" THEN NewDate(v) ELSE v

\* What both readings of C12 share: the output is an object over gte and lte,
\* gte made from from and lte made from to.
RangeMapsFromTo ==
    /\ ret.t = "object"
    /\ DOMAIN ret.o \subseteq {"gte", "lte"}
    /\ "gte" \in DOMAIN ret.o => ret.o.gte = EmittedBound(op, Get(args.range.o, "from"))
    /\ "lte" \in DOMAIN ret.o => ret.o.lte = EmittedBound(op, Get(args.range.o, "to"))

\* C12 as stated: both range builders map from to gte and to to lte, and the
\* output has gte exactly when from is supplied and lte exactly when to is.
C12_RangeMapping ==
    op \in {"buildNumberRangeFilter", "buildDateRangeFilter"} =>
        /\ RangeMapsFromTo
        /\ "gte" \in DOMAIN ret.o <=> IsSupplied(args.range, "from")
        /\ "lte" \in DOMAIN ret.o <=> IsSupplied(args.range, "to")

\* A supplied bound the builder emits: any for the number builder (0 included),
\* any but the empty string for the date builder.
IsEmittedBound(o, range, bound) ==
    /\ IsSupplied(range, bound)
    /\ o = "buildDateRangeFilter" => Get(range.o, bound) # Str("")

\* C12 amended: both range builders map from to gte and to to lte; the number
\* builder's output has gte (lte) exactly when from (to) is supplied, 0
\* included; the date builder's output has gte (lte) exactly when from (to) is
\* supplied and is not the empty string.
C12_RangeMappingOmitsEmptyDates ==
    op \in {"buildNumberRangeFilter", "buildDateRangeFilter"} =>
        /\ RangeMapsFromTo
        /\ "gte" \in DOMAIN ret.o <=> IsEmittedBound(op, args.range, "from")
        /\ "lte" \in DOMAIN ret.o <=> IsEmittedBound(op, args.range, "to")
        /\ args.range = Obj([from |-> Num(10), to |-> Num(20)])
                => ret = Obj([gte |-> Num(10), lte |-> Num(20)])

\* The date builder dropped an empty-string from and kept the to bound.
C12_Witness ==
    /\ op = "buildDateRangeFilter"
    /\ args.range = Obj([from |-> Str(""), to |-> Str("2025-12-31")])
    /\ ret = Obj([lte |-> DateV(Num(20453))])

\* A non-array object of neither range shape: a plain object or a Date that
\* has no from/to property, or whose from/to are not numbers, strings or Dates.
IsUnrecognisedObject(v) ==
    /\ v.t \in {"object", "date"}
    /\ ~IsNumericRangeShape(v)
    /\ ~IsDateRangeShape(v)

\* C13: buildFilters never rejects and never drops a non-array object that is
\* neither a numeric range nor a date range: the call returns, and the key
\* maps to the whole object, unchanged.
C13_PermissiveFallback ==
    op = "buildFilters" =>
        \A k \in DOMAIN args.filters :
            IsUnrecognisedObject(args.filters[k]) =>
                /\ k \in DOMAIN ret
                /\ ret[k] = args.filters[k]
                /\ pc # "thrown"

\* An object whose from is a boolean, and an object with no from/to at all,
\* were both emitted as they were given.
C13_Witness ==
    /\ op = "buildFilters"
    /\ \E k1, k2 \in DOMAIN args.filters :
        /\ args.filters[k1] = Obj([from |-> Bool(TRUE)])
        /\ args.filters[k2] = Obj([role |-> Str("ADMIN")])
        /\ ret[k1] = Obj([from |-> Bool(TRUE)])
        /\ ret[k2] = Obj([role |-> Str("ADMIN")])

\* The i-th character of a string, as a string.
CharAt(s, i) == SubSeq(s, i, i)

\* Empty or made of whitespace only.
IsBlank(s) == \A i \in 1 .. Len(s) : CharAt(s, i) = " "

\* c is s without its leading and trailing whitespace.
IsTrimmedFormOf(c, s) ==
    \E i \in 1 .. Len(s), j \in 1 .. Len(s) :
        /\ i <= j
        /\ c = SubSeq(s, i, j)
        /\ CharAt(s, i) # " "
        /\ CharAt(s, j) # " "
        /\ IsBlank(SubSeq(s, 1, i - 1))
        /\ IsBlank(SubSeq(s, j + 1, Len(s)))

\* C14: buildSearchQuery returns undefined when the term is missing, empty or
\* whitespace-only, or when fields is empty or not an array; otherwise it
\* returns {OR: [...]} with one entry per field, in the order of fields, each
\* {field: {contains: the trimmed term, mode: "insensitive"}}.
C14_SearchQuery ==
    op = "buildSearchQuery" =>
        LET term == args.search
            fields == args.fields
            noTerm == term = Undefined \/ IsBlank(term.s)
            noFields == fields = Undefined \/ fields.t # "array" \/ Len(fields.a) = 0
        IN IF noTerm \/ noFields
           THEN ret = Undefined
           ELSE /\ ret.t = "object"
                /\ DOMAIN ret.o = {"OR"}
                /\ ret.o.OR.t = "array"
                /\ Len(ret.o.OR.a) = Len(fields.a)
                /\ \A i \in 1 .. Len(fields.a) :
                    LET entry == ret.o.OR.a[i]
                        field == fields.a[i].s
                    IN /\ entry.t = "object"
                       /\ DOMAIN entry.o = {field}
                       /\ entry.o[field].t = "object"
                       /\ DOMAIN entry.o[field].o = {"contains", "mode"}
                       /\ entry.o[field].o.mode = Str("insensitive")
                       /\ entry.o[field].o.contains.t = "string"
                       /\ IsTrimmedFormOf(entry.o[field].o.contains.s, term.s)

\* A padded term over three fields gave three entries in the fields' order,
\* each holding the term without the padding.
C14_Witness ==
    /\ op = "buildSearchQuery"
    /\ args.search = Str("  test  ")
    /\ args.fields = Arr(<<Str("username"), Str("email"), Str("firstName")>>)
    /\ ret = Obj([OR |-> Arr(<<
            Obj([username |-> Obj([contains |-> Str("test"), mode |-> Str("insensitive")])]),
            Obj([email |-> Obj([contains |-> Str("test"), mode |-> Str("insensitive")])]),
            Obj([firstName |-> Obj([contains |-> Str("test"), mode |-> Str("insensitive")])]) >>)])

\* The position of the last of the maps that has the key.
LastWith(maps, k) ==
    CHOOSE i \in 1 .. Len(maps) :
        /\ k \in DOMAIN maps[i]
        /\ \A j \in i + 1 .. Len(maps) : k \notin DOMAIN maps[j]

\* C15: combineFilters is a left-to-right shallow merge: the result's keys are
\* the union of the inputs' keys, each key holds the whole value of the last
\* input that has it (nested objects are not merged, arrays not concatenated),
\* and no inputs give {}.
C15_ShallowMerge ==
    op = "combineFilters" =>
        LET maps == args.filterObjects
        IN /\ ret.t = "object"
           /\ DOMAIN ret.o = UNION {DOMAIN maps[i] : i \in 1 .. Len(maps)}
           /\ \A k \in DOMAIN ret.o : ret.o[k] = maps[LastWith(maps, k)][k]
           /\ Len(maps) = 0 => ret = Obj(EmptyObject)

\* Two maps that both hold a nested object under a: the later one's object
\* replaced the earlier one's whole.
C15_Witness ==
    /\ op = "combineFilters"
    /\ args.filterObjects = << [a |-> Obj([x |-> Num(1)])],
                               [b |-> Num(2)],
                               [a |-> Obj([y |-> Num(2)]), c |-> Bool(TRUE)] >>
    /\ ret = Obj([a |-> Obj([y |-> Num(2)]), b |-> Num(2), c |-> Bool(TRUE)])

\* The non-empty maps among the arguments, in argument order.
RECURSIVE NonEmptyMaps(_)
NonEmptyMaps(maps) ==
    IF maps = <<>> THEN <<>>
    ELSE IF Head(maps) = EmptyObject THEN NonEmptyMaps(Tail(maps))
    ELSE <<Head(maps)>> \o NonEmptyMaps(Tail(maps))

\* C17: combineFiltersWithOr drops the empty maps; no non-empty map gives
\* undefined, exactly one gives that map itself, two or more give
\* {OR: [the non-empty maps in argument order]}.
C17_CombineWithOr ==
    op = "combineFiltersWithOr" =>
        LET survivors == NonEmptyMaps(args.filterObjects)
        IN /\ Len(survivors) = 0 => ret = Undefined
           /\ Len(survivors) = 1 => ret = Obj(survivors[1])
           /\ Len(survivors) >= 2 =>
                /\ ret.t = "object"
                /\ DOMAIN ret.o = {"OR"}
                /\ ret.o.OR.t = "array"
                /\ Len(ret.o.OR.a) = Len(survivors)
                /\ \A i \in 1 .. Len(survivors) : ret.o.OR.a[i] = Obj(survivors[i])
           /\ args.filterObjects = <<EmptyObject, [a |-> Num(1)]>>
                => ret = Obj([a |-> Num(1)])
           /\ args.filterObjects = <<[a |-> Num(1)], [b |-> Num(2)]>>
                => ret = Obj([OR |-> Arr(<<Obj([a |-> Num(1)]), Obj([b |-> Num(2)])>>)])

\* One non-empty map after an empty one came back unwrapped.
C17_Witness ==
    /\ op = "combineFiltersWithOr"
    /\ args.filterObjects = <<EmptyObject, [a |-> Num(1)]>>
    /\ ret = Obj([a |-> Num(1)])

\* C19: buildRelationFilters gives every key whose value is a non-null
\* object the value buildFilters(value), also when that is empty (for an array
\* buildFilters sees its indices as keys, for a Date no keys at all); a key
\* whose value is undefined, null, a string, a number or a boolean is absent
\* from the output, and the output has no other keys.
C19_RelationFilters ==
    op = "buildRelationFilters" =>
        /\ ret.t = "object"
        /\ DOMAIN ret.o \subseteq DOMAIN args.relationFilters
        /\ \A k \in DOMAIN args.relationFilters :
            LET v == args.relationFilters[k]
            IN CASE v.t = "object" ->
                        k \in DOMAIN ret.o /\ ret.o[k] = Obj(buildFilters(v.o))
                 [] v.t = "array" ->
                        k \in DOMAIN ret.o /\ ret.o[k] = Obj(buildFilters(OwnProperties(v)))
                 [] v.t = "date" ->
                        k \in DOMAIN ret.o /\ ret.o[k] = Obj(EmptyObject)
                 [] OTHER -> k \notin DOMAIN ret.o

\* A relation whose conditions are all dropped is still emitted, as {}, and a
\* relation given as a string is left out.
C19_Witness ==
    /\ op = "buildRelationFilters"
    /\ args.relationFilters =
            [user |-> Obj([status |-> Undefined, tags |-> Arr(<<>>)]), event |-> Str("x")]
    /\ ret = Obj([user |-> Obj(EmptyObject)])

\* C20: buildNotFilters never emits an empty negation: it returns undefined
\* whenever buildFilters of its argument is empty, and {NOT: buildFilters of
\* its argument} otherwise.
C20_NotFilters ==
    op = "buildNotFilters" =>
        LET built == buildFilters(args.notFilters)
        IN /\ ret # Obj([NOT |-> Obj(EmptyObject)])
           /\ DOMAIN built = {} => ret = Undefined
           /\ DOMAIN built # {} => ret = Obj([NOT |-> Obj(built)])
           /\ (\A k \in DOMAIN args.notFilters : IsOmittedValue(args.notFilters[k]))
                => ret = Undefined

\* Four values that are all dropped gave undefined, not {NOT: {}}.
C20_Witness ==
    /\ op = "buildNotFilters"
    /\ args.notFilters = [a |-> Undefined, b |-> Null, c |-> Str(""), d |-> Arr(<<>>)]
    /\ ret = Undefined

(***************************************************************************)
(* Claims about the conditions and the envelope of the orchestrators       *)
(* (checked under Spec).                                                   *)
(***************************************************************************)
Orchestrators ==
    {"queryBuilder", "cursorQueryBuilder", "advancedQueryBuilder", "countQuery",
     "aggregateQuery"}

\* The argument objects of every data-access call made so far.
DataAccessCalls ==
    {findManyCalls[i] : i \in 1 .. Len(findManyCalls)}
    \cup {countCalls[i] : i \in 1 .. Len(countCalls)}
    \cup {aggregateCalls[i] : i \in 1 .. Len(aggregateCalls)}

\* The three fragments of the current call's conditions.
SearchFragment ==
    LET searchQuery == buildSearchQuery(args.search, args.searchFields)
    IN IF searchQuery = Undefined THEN EmptyObject ELSE searchQuery.o

FilterFragment ==
    IF args.filters = Undefined THEN EmptyObject ELSE buildFilters(args.filters.o)

RelationFragment ==
    IF args.relationFilters = Undefined THEN EmptyObject
    ELSE buildRelationFilters(args.relationFilters.o)

\* C16: in every orchestrator the where of each data-access call is the merge
\* of the search fragment, the filter fragment and the relation fragment: its
\* keys are the union of theirs, the relation fragment wins over the filter
\* fragment and the filter fragment over the search fragment, so that a
\* filter key named OR replaces the whole search clause.
C16_ConditionAssembly ==
    op \in Orchestrators =>
        /\ DataAccessCalls # {}
        /\ \A call \in DataAccessCalls :
            /\ "where" \in DOMAIN call
            /\ DOMAIN call.where = DOMAIN SearchFragment \cup DOMAIN FilterFragment
                                        \cup DOMAIN RelationFragment
            /\ \A k \in DOMAIN call.where :
                call.where[k] = IF k \in DOMAIN RelationFragment THEN RelationFragment[k]
                                ELSE IF k \in DOMAIN FilterFragment THEN FilterFragment[k]
                                ELSE SearchFragment[k]
            /\ ("OR" \in DOMAIN FilterFragment /\ "OR" \notin DOMAIN RelationFragment)
                    => call.where.OR = FilterFragment.OR
            /\ call.where = combineFilters(<<SearchFragment, FilterFragment, RelationFragment>>)

\* aggregateQuery was called with a search that yields an OR clause and a
\* filter named OR: the where it passed holds the filter's condition.
C16_Witness ==
    /\ op = "aggregateQuery"
    /\ Len(aggregateCalls) = 1
    /\ "OR" \in DOMAIN SearchFragment
    /\ args.filters = Obj([OR |-> Arr(<<Obj([role |-> Str("ADMIN")])>>)])
    /\ args.relationFilters = Obj([profile |-> Obj([isActive |-> Bool(TRUE)])])
    /\ aggregateCalls[1].where =
            [OR |-> Obj([in |-> Arr(<<Obj([role |-> Str("ADMIN")])>>)]),
             profile |-> Obj([isActive |-> Bool(TRUE)])]

\* C18: the envelope queryBuilder resolves with has meta.total = the count
\* result, meta.limit = the clamped take that was sent to findMany, at least 1
\* whatever limit was passed, and meta.totalPages = ceil(total / limit): the
\* least number of pages of that size that hold total rows.
C18_OffsetEnvelope ==
    (op = "queryBuilder" /\ pc = "returned") =>
        LET meta == ret.meta
        IN /\ meta.total = promises.count.v
           /\ meta.limit = findManyCalls[1].take
           /\ meta.limit = ClampedLimit(NumberOr(args.limit, DEFAULT_LIMIT))
           /\ meta.limit >= 1
           /\ meta.totalPages * meta.limit >= meta.total
           /\ (meta.totalPages - 1) * meta.limit < meta.total

\* A limit of 0 was clamped to 1 and two rows were counted: two pages of one.
C18_Witness ==
    /\ op = "queryBuilder"
    /\ pc = "returned"
    /\ args.limit = Num(0)
    /\ promises.count.v = 2
    /\ ret.meta = [total |-> 2, page |-> 2, limit |-> 1, totalPages |-> 2]

(***************************************************************************)
(* Claims about edge cases of cursor pagination.                           *)
(***************************************************************************)
\* C25: when processCursorResults finds more results than the limit but the
\* trimmed data is empty, as for limit = 0 with a non-empty result list, it
\* reports hasMore with nextCursor null: no cursor is derived from a last
\* element that does not exist.
C25_EmptyPageKeepsNullCursor ==
    op = "processCursorResults" =>
        /\ (args.limit = 0 /\ args.results # <<>>) =>
                /\ ret.hasMore = TRUE
                /\ ret.data = <<>>
                /\ ret.nextCursor = Null
        /\ (ret.hasMore = TRUE /\ ret.data = <<>>) => ret.nextCursor = Null

\* Three rows against a limit of 0.
C25_Witness ==
    /\ op = "processCursorResults"
    /\ args.limit = 0
    /\ Len(args.results) = 3
    /\ ret = [data |-> <<>>, hasMore |-> TRUE, nextCursor |-> Null]

\* C27: cursorQueryBuilder trims with the limit it fetched with: for every
\* limit, data has at most the clamped limit's rows, meta.hasMore is true
\* exactly when findMany returned take = clamped limit + 1 rows, and
\* meta.limit is the clamped limit.
C27_TrimsWithFetchLimit ==
    (op = "cursorQueryBuilder" /\ pc = "returned") =>
        LET clamped == ClampedLimit(NumberOr(args.limit, DEFAULT_LIMIT))
            rows == promises.findMany.v
        IN /\ findManyCalls[1].take = clamped + 1
           /\ Len(ret.data) <= clamped
           /\ ret.meta.hasMore = (Len(rows) = findManyCalls[1].take)
           /\ ret.meta.limit = clamped

\* C28: a reported further page is reachable: for every limit other than 0
\* and every result list whose rows all carry the cursor field, whenever
\* processCursorResults returns hasMore = true, data is non-empty and
\* nextCursor is the string form of the cursor field of data's last row.
C28_HasMoreGivesCursor ==
    op = "processCursorResults" =>
        LET field == IF args.cursorField = Undefined THEN "id" ELSE args.cursorField.s
            carried == \A i \in 1 .. Len(args.results) : field \in DOMAIN args.results[i].o
        IN (args.limit # 0 /\ carried /\ ret.hasMore = TRUE) =>
                /\ ret.data # <<>>
                /\ ret.nextCursor = Str(JsString(ret.data[Len(ret.data)].o[field]))

\* C29: the page queryBuilder reports is the page it fetched: the skip passed
\* to findMany is (meta.page - 1) * meta.limit, and meta.page is at least 1.
C29_ReportedPageIsFetchedPage ==
    (op = "queryBuilder" /\ pc = "returned") =>
        /\ findManyCalls[1].skip = (ret.meta.page - 1) * ret.meta.limit
        /\ ret.meta.page >= 1

(***************************************************************************)
(* Claims about what the filter builder emits.                             *)
(***************************************************************************)
\* C30: buildFilters never emits a constraint-free condition: no key of the
\* output maps to the empty object, and the condition made from a range has
\* no gte or lte that is null or undefined.
C30_NoConstraintFreeCondition ==
    op = "buildFilters" =>
        \A k \in DOMAIN ret :
            /\ ret[k] # Obj(EmptyObject)
            /\ (IsNumericRangeShape(args.filters[k]) \/ IsDateRangeShape(args.filters[k])) =>
                    \A b \in DOMAIN ret[k].o : ret[k].o[b] \notin {Null, Undefined}

(***************************************************************************)
(* Claims about paging through a data set (checked under SpecPaging).      *)
(***************************************************************************)
\* C26: paging with cursorQueryBuilder over an unchanged data set with unique
\* cursor values delivers, for every limit, every row exactly once and in
\* order: what the pages hold so far is always a prefix of the ordered result
\* set, and when the loop has ended with hasMore = false it is the whole set.
C26_PagingDeliversEveryRowOnce ==
    loop.st \in {"running", "done"} =>
        /\ Len(loop.collected) <= Len(loop.rows)
        /\ loop.collected = SubSeq(loop.rows, 1, Len(loop.collected))
        /\ loop.st = "done" => loop.collected = loop.rows

(***************************************************************************)
(* Claims about the cache wrapper (checked under SpecCache).               *)
(***************************************************************************)
HasUnexpiredEntry(store, key, t) == key \in DOMAIN store /\ t < store[key].expiry

IsWrapperCall(name) == op' = name /\ callsMade' = callsMade + 1

C21_CallStep ==
    IsWrapperCall("cachedQueryBuilder") =>
        LET key == args'.cache.key
        IN IF HasUnexpiredEntry(cache, key, now)
           THEN /\ pc' = "returned"
                /\ ret' = cache[key].value
                /\ baseCalls' = baseCalls
           ELSE /\ pc' = "awaiting"
                /\ baseCalls' = Append(baseCalls, args'.options)

C21_ResultStep ==
    (op = "cachedQueryBuilder" /\ pc = "awaiting") =>
        /\ baseCalls' = baseCalls
        /\ pc' = "returned" =>
              /\ ret' = basePromises'[Len(basePromises')].v
              /\ DOMAIN cache' = DOMAIN cache \cup {args.cache.key}
              /\ \A k \in DOMAIN cache' :
                    cache'[k] = IF k = args.cache.key
                                THEN [value |-> ret', expiry |-> now + args.cache.ttl]
                                ELSE cache[k]
        /\ pc' # "returned" => cache' = cache

\* C21: in any sequence of cachedQueryBuilder calls, a call whose key has an
\* unexpired entry in the current store returns the stored value and makes no
\* queryBuilder call; a call whose key has no entry, or an expired one, makes
\* exactly one queryBuilder call (with the caller's options) and, when that
\* query has answered, returns the fresh result and writes it to the store
\* under the key, expiring the given ttl after the write.
C21_CacheWrapper == [][C21_CallStep /\ C21_ResultStep]_vars

\* A call was served from the store after an earlier call had filled it.
C21_Witness ==
    /\ op = "cachedQueryBuilder"
    /\ pc = "returned"
    /\ Len(baseCalls) >= 1
    /\ callsMade > Len(baseCalls)
    /\ HasUnexpiredEntry(cache, args.cache.key, now)
    /\ ret = cache[args.cache.key].value
    /\ now >= 1

(***************************************************************************)
(* Claims about soft delete and the batch runner (checked under            *)
(* SpecWrappers).                                                          *)
(***************************************************************************)
CallerFilters(options) ==
    IF "filters" \in DOMAIN options.o THEN options.o.filters.o ELSE EmptyObject

\* C22: buildSoftDeleteFilter() is {deletedAt: null}, with includeTrashed it
\* is {}, with trashedOnly it is {deletedAt: {not: null}}; the filters that
\* softDeleteQueryBuilder passes to queryBuilder hold every filter key of the
\* caller (with the caller's value unless the soft-delete filter sets the key)
\* and every entry of the soft-delete filter; the other options pass unchanged.
C22_SoftDelete ==
    /\ (op = "buildSoftDeleteFilter" /\ args.options = Undefined) =>
            (DOMAIN ret = {"deletedAt"} /\ ret.deletedAt = Null)
    /\ (op = "buildSoftDeleteFilter" /\ args.options = Obj([includeTrashed |-> Bool(TRUE)])) =>
            DOMAIN ret = {}
    /\ (op = "buildSoftDeleteFilter" /\ args.options = Obj([trashedOnly |-> Bool(TRUE)])) =>
            (DOMAIN ret = {"deletedAt"} /\ ret.deletedAt = Obj([not |-> Null]))
    /\ op = "softDeleteQueryBuilder" =>
            LET caller == CallerFilters(args.options)
                soft == buildSoftDeleteFilter(args.softDelete)
                passed == baseCalls[1].o
            IN /\ Len(baseCalls) = 1
               /\ DOMAIN passed = DOMAIN args.options.o \cup {"filters"}
               /\ \A k \in DOMAIN args.options.o \ {"filters"} : passed[k] = args.options.o[k]
               /\ DOMAIN passed.filters.o = DOMAIN caller \cup DOMAIN soft
               /\ \A k \in DOMAIN soft : passed.filters.o[k] = soft[k]
               /\ \A k \in DOMAIN caller \ DOMAIN soft : passed.filters.o[k] = caller[k]

\* The test's call: filters {status: "ACTIVE"} and the default soft delete.
C22_Witness ==
    /\ op = "softDeleteQueryBuilder"
    /\ pc = "returned"
    /\ args.softDelete = Undefined
    /\ CallerFilters(args.options) = [status |-> Str("ACTIVE")]
    /\ baseCalls[1].o.filters = Obj([status |-> Str("ACTIVE"), deletedAt |-> Null])

BatchNamesOf(queries) == {queries[i].name : i \in 1 .. Len(queries)}

C24_State ==
    op = "batchQueryBuilder" =>
        LET queries == args.queries
            n == Len(queries)
        IN /\ Len(baseCalls) = n
           /\ Len(basePromises) = n
           /\ \A i \in 1 .. n : baseCalls[i] = queries[i].options
           /\ pc = "returned" <=> \A i \in 1 .. n : basePromises[i].st = "fulfilled"
           /\ pc = "returned" =>
                 /\ ret.t = "object"
                 /\ DOMAIN ret.o = BatchNamesOf(queries)
                 /\ \A i \in 1 .. n : ret.o[queries[i].name] = basePromises[i].v
           /\ pc = "thrown" <=> \E i \in 1 .. n : basePromises[i].st = "rejected"
           /\ pc # "returned" => ret = Undefined

C24_Step ==
    op = "batchQueryBuilder" =>
        /\ \A i \in 1 .. Len(basePromises) :
              (pc = "awaiting" /\ basePromises[i].st = "pending"
                  /\ basePromises'[i].st = "rejected") =>
                  (pc' = "thrown" /\ err' = basePromises'[i].e)
        /\ pc = "thrown" => (pc' = "thrown" /\ err' = err /\ ret' = ret)

\* C24: batchQueryBuilder starts every named query before any of them has
\* answered; when all have succeeded it returns a mapping with exactly one
\* entry per query name holding that query's result; when a query fails the
\* batch fails at once with that first rejection, whatever the other queries
\* do later, and no mapping is produced.
C24_Batch == [][C24_State' /\ C24_Step]_vars

\* The batch has failed although one of its queries succeeded.
C24_Witness ==
    /\ op = "batchQueryBuilder"
    /\ pc = "thrown"
    /\ Len(basePromises) = 2
    /\ \E i \in 1 .. 2 : basePromises[i].st = "fulfilled"
    /\ \E i \in 1 .. 2 : basePromises[i].st = "rejected" /\ err = basePromises[i].e
    /\ ret = Undefined

(***************************************************************************)
(* Claims about the preset registry (checked under SpecPresets).           *)
(***************************************************************************)
C23_Registry ==
    \A n \in PresetNames :
        LET before == loadQueryPreset(presets, n)
            after == loadQueryPreset(presets', n)
            saved == IsWrapperCall("saveQueryPreset") /\ args'.name = n
            deleted == IsWrapperCall("deletePreset") /\ args'.name = n
        IN /\ saved => after = args'.options
           /\ deleted => (after = Undefined /\ (before # Undefined => ret' = Bool(TRUE)))
           /\ (~saved /\ ~deleted) => after = before
           /\ (IsWrapperCall("loadQueryPreset") /\ args'.name = n) => ret' = before
           /\ IsWrapperCall("listPresets") =>
                 (before # Undefined <=> \E i \in 1 .. Len(ret'.a) : ret'.a[i] = Str(n))

C23_Execute ==
    (IsWrapperCall("executePreset") /\ loadQueryPreset(presets, args'.name) # Undefined) =>
        LET stored == loadQueryPreset(presets, args'.name).o
            overrides == args'.overrides
            passed == baseCalls'[Len(baseCalls')].o
        IN /\ Len(baseCalls') = Len(baseCalls) + 1
           /\ DOMAIN passed = DOMAIN stored \cup DOMAIN overrides
           /\ \A k \in DOMAIN passed :
                 passed[k] = IF k \in DOMAIN overrides THEN overrides[k] ELSE stored[k]
           /\ presets' = presets

\* C23: after saveQueryPreset(n, o), listPresets() contains n and
\* loadQueryPreset(n) yields o until deletePreset(n), which returns true and
\* removes n; executePreset(n, overrides) calls queryBuilder once with the
\* stored options shallow-merged with the overrides, the overrides winning on
\* every shared key, and leaves the registry unchanged.
C23_PresetRegistry == [][C23_Registry /\ C23_Execute]_vars

\* A preset stored with page 1 was run with the override page 2.
C23_Witness ==
    /\ op = "executePreset"
    /\ pc = "returned"
    /\ args.overrides = [page |-> Num(2)]
    /\ loadQueryPreset(presets, args.name) = Obj([model |-> Str("User"), page |-> Num(1)])
    /\ baseCalls[Len(baseCalls)] = Obj([model |-> Str("User"), page |-> Num(2)])

=============================================================================
